---- MODULE Spec2Model ----
(***************************************************************************)
(* The run lifecycle engine of the graph server: the aggregate store       *)
(* (assistants, assistant versions, threads, runs, retry counters), the    *)
(* stream bus (per-run queue and cancellation handle) and the picker       *)
(* Runs.next().  One action per operation of storage/ops.mts.  A callback  *)
(* handed to conn.with is applied to the store document; a callback body   *)
(* without a suspension point is one step (JavaScript runs it to           *)
(* completion), the picker generator suspends at each yield.  Of a thread  *)
(* the model keeps status, metadata and values; of a run its ids, status,  *)
(* created_at and updated_at; of an assistant all but its timestamps.      *)
(***************************************************************************)
EXTENDS Integers, Sequences, FiniteSets, TLC

\* ------------------------------------------------------------------ bounds
MaxRuns == 2          \* run ids 1..MaxRuns (each used at most once, as a UUID)
MaxThreads == 2       \* thread ids 1..MaxThreads
MaxAssistants == 1    \* assistant ids 1..MaxAssistants
MaxPickers == 2       \* concurrently active Runs.next() generators
MaxTime == 2          \* the clock runs 0..MaxTime
MaxAfter == 1         \* afterSeconds is drawn from 0..MaxAfter
MaxVersion == 3       \* Assistants.patch is not taken beyond this version
MaxRetry == 2         \* the picker does not hand a run out more often
MaxCancel == 2        \* run ids per Runs.cancel call
MaxSubs == 2          \* subscribers calling Queue.get on the queue
MaxMsgs == 2          \* messages pushed to the queue
MaxPosts == 2         \* Threads.State.post / batch calls in flight
MaxCalls == 2         \* Runs.cancel calls that go through the persistence lock
MaxLaunches == 3      \* launchServer calls of the dev command

RunIds == 1..MaxRuns
ThreadIds == 1..MaxThreads
AssistantIds == 1..MaxAssistants
PickerIds == 1..MaxPickers
SubIds == 1..MaxSubs
PostIds == 1..MaxPosts

Null == "null"        \* undefined / null / absent key, for a string
NoId == 0             \* undefined / null, for an id

RunStatus == {"pending", "running", "error", "success", "timeout", "interrupted"}
ThreadStatus == {"idle", "busy", "interrupted", "error"}
CancelAction == {"interrupt", "rollback"}

VARIABLES
  now,                 \* new Date()
  assistants,          \* STORE.assistants: id -> record
  assistant_versions,  \* STORE.assistant_versions: array of records
  threads,             \* STORE.threads: id -> record
  runs,                \* STORE.runs: records in insertion order (Object.values)
  retry_counter,       \* STORE.retry_counter: run id -> count (0: no key)
  usedRunIds,          \* run ids handed out so far (uuid4 never repeats)
  control,             \* StreamManager.control: run id -> Null, "live" or the abort reason
  pickers,             \* each Runs.next() generator: its position and locals
  qbuffer,             \* Queue.buffer of one queue: the messages not yet taken
  qlisteners,          \* Queue.listeners: the waiting get calls, in array order
  subs,                \* each subscriber: where its get call stands, what its gets returned
  pushed,              \* the messages pushed so far, in push order
  published,           \* the Runs.Stream.publish calls so far: message i is built from call i
  joins,               \* each Runs.Stream.join generator: its position, arguments and yields
  graph,               \* the graph library's checkpoints: thread id -> the states, oldest first
  posts,               \* each Threads.State.post / batch call: its position and locals
  lock,                \* the persistence lock: the Runs.cancel call whose callback runs, or NoId
  calls,               \* each Runs.cancel call: its position and locals
  deletes,             \* the Runs.delete calls whose conn.with has not run yet
  child,               \* dev command: the variable child, a process or NoId
  alive,               \* dev command: the spawned server processes that were not killed
  launches             \* dev command: each launchServer call: its position and the process it spawns

storeVars == <<assistants, assistant_versions, threads, runs, retry_counter, usedRunIds>>
busVars == <<control>>
queueVars == <<qbuffer, qlisteners, subs, pushed>>
joinVars == <<published, joins>>
stateVars == <<graph, posts>>
lockVars == <<lock, calls, deletes>>
devVars == <<child, alive, launches>>
vars == <<now, assistants, assistant_versions, threads, runs, retry_counter,
          usedRunIds, control, pickers, qbuffer, qlisteners, subs, pushed,
          published, joins, graph, posts, lock, calls, deletes, child, alive, launches>>

\* ----------------------------------------------------------------- helpers
Range(s) == {s[i] : i \in 1..Len(s)}

\* Array.prototype.filter over a sequence
RECURSIVE SelectSeqBy(_, _)
SelectSeqBy(s, keep) ==
  IF s = <<>> THEN <<>>
  ELSE IF Head(s) \in keep THEN <<Head(s)>> \o SelectSeqBy(Tail(s), keep)
       ELSE SelectSeqBy(Tail(s), keep)

\* STORE.runs[runId]: the record, or Null
RunIndex(rid) == IF \E i \in 1..Len(runs) : runs[i].run_id = rid
                 THEN CHOOSE i \in 1..Len(runs) : runs[i].run_id = rid
                 ELSE 0
HasRun(rid) == RunIndex(rid) # 0
GetRun(rid) == runs[RunIndex(rid)]

\* delete STORE.runs[k] for every k in ids
RemoveRuns(rs, ids) == SelectSeqBy(rs, {r \in Range(rs) : r.run_id \notin ids})

\* {...a, ...b} for mappings over one key set: a key of b that is present wins
Merge(a, b) == [k \in DOMAIN a |-> IF b[k] # Null THEN b[k] ELSE a[k]]

\* obj[k] = v and delete obj[k] on a keyed object
Put(obj, k, v) == [x \in DOMAIN obj \cup {k} |-> IF x = k THEN v ELSE obj[x]]
Del(obj, k) == [x \in DOMAIN obj \ {k} |-> obj[x]]

\* ------------------------------------------------------------------- Queue
\* A message is the number of its push; 0 stands for undefined.
Undefined == 0
IdleSub == [pc |-> "idle", res |-> "none", got |-> <<>>]

\* Array.prototype.shift that takes the last element
QShiftLast(buf) ==
  IF buf = <<>> THEN [item |-> Undefined, rest |-> <<>>]
  ELSE [item |-> buf[Len(buf)], rest |-> SubSeq(buf, 1, Len(buf) - 1)]
\* Array.prototype.shift that leaves the element in the buffer
QShiftPeek(buf) ==
  IF buf = <<>> THEN [item |-> Undefined, rest |-> <<>>]
  ELSE [item |-> Head(buf), rest |-> buf]
\* this.buffer.shift(): undefined on an empty buffer
QShift(buf) ==
  IF buf = <<>> THEN [item |-> Undefined, rest |-> <<>>]
  ELSE [item |-> Head(buf), rest |-> Tail(buf)]

\* a filter that keeps every listener
WithoutListenerKept(ls, sub) == ls
\* this.listeners.filter((l) => l !== listener)
WithoutListener(ls, sub) == SelectSeqBy(ls, Range(ls) \ {sub})

\* a get call returns item to subscriber sub
Returned(sub, item) ==
  [subs EXCEPT ![sub] = [pc |-> "idle",
                         res |-> IF item = Undefined THEN "undefined" ELSE "message",
                         got |-> Append(@.got, item)]]

\* Queue.push(item): append, then call every listener; a listener takes itself
\* off the list, clears its timer and resolves its promise
QueuePush ==
  /\ Len(pushed) < MaxMsgs
  /\ LET item == Len(pushed) + 1
     IN /\ qbuffer' = Append(qbuffer, item)
        /\ pushed' = Append(pushed, item)
  /\ subs' = [x \in SubIds |->
               IF x \in Range(qlisteners) THEN [subs[x] EXCEPT !.pc = "woken"] ELSE subs[x]]
  /\ qlisteners' = <<>>
  /\ UNCHANGED <<now, storeVars, busVars, pickers>>

\* Queue.get({timeout, signal}) up to its first suspension: a buffered message is
\* returned at once, else the call registers a listener and waits
QueueGet(sub) ==
  /\ subs[sub].pc = "idle"
  /\ IF Len(qbuffer) > 0
     THEN /\ subs' = Returned(sub, QShift(qbuffer).item)
          /\ qbuffer' = QShift(qbuffer).rest
          /\ UNCHANGED qlisteners
     ELSE /\ subs' = [subs EXCEPT ![sub].pc = "waiting"]
          /\ qlisteners' = Append(qlisteners, sub)
          /\ UNCHANGED qbuffer
  /\ UNCHANGED <<now, storeVars, busVars, pickers, pushed>>

\* .then(() => this.buffer.shift()!): the resolved promise's continuation runs
QueueTake(sub) ==
  /\ subs[sub].pc = "woken"
  /\ subs' = Returned(sub, QShift(qbuffer).item)
  /\ qbuffer' = QShift(qbuffer).rest
  /\ UNCHANGED <<now, storeVars, busVars, pickers, qlisteners, pushed>>

\* the timer of a waiting get fires: the listener is removed, TimeoutError
QueueTimeout(sub) ==
  /\ subs[sub].pc = "waiting"
  /\ qlisteners' = WithoutListener(qlisteners, sub)
  /\ subs' = [subs EXCEPT ![sub] = [@ EXCEPT !.pc = "idle", !.res = "timeout"]]
  /\ UNCHANGED <<now, storeVars, busVars, pickers, qbuffer, pushed>>

\* the signal of a waiting get aborts: the listener is removed, AbortError
QueueAbort(sub) ==
  /\ subs[sub].pc = "waiting"
  /\ qlisteners' = WithoutListener(qlisteners, sub)
  /\ subs' = [subs EXCEPT ![sub] = [@ EXCEPT !.pc = "idle", !.res = "abort"]]
  /\ UNCHANGED <<now, storeVars, busVars, pickers, qbuffer, pushed>>

\* -------------------------------------------------------------- Assistants
MetaKeys == {"k"}
EmptyMeta == [k \in MetaKeys |-> Null]

AssistantVersionsOf(aid) ==
  {assistant_versions[i].version :
     i \in {j \in 1..Len(assistant_versions) : assistant_versions[j].assistant_id = aid}}

MaxOf(S) == CHOOSE m \in S : \A x \in S : x <= m

\* the record and the version record a first Assistants.put stores
NewAssistant(graph_id, config, metadata, name) ==
  [graph_id |-> graph_id, version |-> 1, config |-> config, metadata |-> metadata,
   name |-> IF name # Null THEN name ELSE graph_id]
NewAssistantVersion(aid, graph_id, config, metadata, name) ==
  [assistant_id |-> aid, version |-> 1, graph_id |-> graph_id, config |-> config,
   metadata |-> metadata, name |-> IF name # Null THEN name ELSE graph_id]

\* an Assistants.put that stores the given record over an existing one
AssistantsPutResultOverwrite(aid, graph_id, config, metadata, name, if_exists) ==
  IF aid \in DOMAIN assistants /\ if_exists = "raise"
  THEN [outcome |-> "409", assistants |-> assistants,
        assistant_versions |-> assistant_versions, returned |-> <<>>]
  ELSE [outcome |-> "ok",
        assistants |-> Put(assistants, aid, NewAssistant(graph_id, config, metadata, name)),
        assistant_versions |-> Append(assistant_versions,
          NewAssistantVersion(aid, graph_id, config, metadata, name)),
        returned |-> <<NewAssistant(graph_id, config, metadata, name)>>]
\* what Assistants.put leaves and returns: outcome "409" is the HTTPException
AssistantsPutResult(aid, graph_id, config, metadata, name, if_exists) ==
  IF aid \in DOMAIN assistants
  THEN IF if_exists = "raise"
       THEN [outcome |-> "409", assistants |-> assistants,
             assistant_versions |-> assistant_versions, returned |-> <<>>]
       ELSE [outcome |-> "ok", assistants |-> assistants,
             assistant_versions |-> assistant_versions, returned |-> <<assistants[aid]>>]
  ELSE [outcome |-> "ok",
        assistants |-> Put(assistants, aid, NewAssistant(graph_id, config, metadata, name)),
        assistant_versions |-> Append(assistant_versions,
          NewAssistantVersion(aid, graph_id, config, metadata, name)),
        returned |-> <<NewAssistant(graph_id, config, metadata, name)>>]

\* Assistants.put(assistantId, {config, graph_id, metadata, if_exists, name})
AssistantsPut(aid, graph_id, config, metadata, name, if_exists) ==
  LET res == AssistantsPutResult(aid, graph_id, config, metadata, name, if_exists)
  IN /\ assistants' = res.assistants
     /\ assistant_versions' = res.assistant_versions
     /\ UNCHANGED <<now, threads, runs, retry_counter, usedRunIds, busVars, pickers,
                    queueVars, joinVars, stateVars, lockVars, devVars>>

\* Assistants.patch that sets the new version number and stores no record of it
AssistantsPatchNoRecord(aid, graph_id, config, metadata, name) ==
  /\ aid \in DOMAIN assistants
  /\ assistants[aid].version < MaxVersion
  /\ assistants' = [assistants EXCEPT ![aid].version = @ + 1]
  /\ UNCHANGED <<now, assistant_versions, threads, runs, retry_counter, usedRunIds,
                 busVars, pickers, queueVars, joinVars, stateVars, lockVars, devVars>>

\* a version number taken from the live assistant
NextVersionFromLive(aid) == assistants[aid].version + 1
\* Math.max(...versions of the assistant) + 1
NextVersion(aid) == MaxOf(AssistantVersionsOf(aid)) + 1

\* Assistants.patch(assistantId, {config?, graph_id?, metadata?, name?});
\* an option that is Null is not given, metadata without a key merges nothing
AssistantsPatch(aid, graph_id, config, metadata, name) ==
  IF aid \notin DOMAIN assistants
  THEN UNCHANGED vars
  ELSE LET a == assistants[aid]
           md == Merge(a.metadata, metadata)
           newVersion == NextVersion(aid)
           patched == [graph_id |-> IF graph_id # Null THEN graph_id ELSE a.graph_id,
                       config |-> IF config # Null THEN config ELSE a.config,
                       name |-> IF name # Null THEN name ELSE a.name,
                       metadata |-> md,
                       version |-> newVersion]
       IN /\ newVersion <= MaxVersion
          /\ assistants' = [assistants EXCEPT ![aid] = patched]
          /\ assistant_versions' = Append(assistant_versions,
               [assistant_id |-> aid, version |-> newVersion,
                graph_id |-> patched.graph_id, config |-> patched.config,
                name |-> patched.name, metadata |-> patched.metadata])
          /\ UNCHANGED <<now, threads, runs, retry_counter, usedRunIds, busVars, pickers, queueVars, joinVars, stateVars, lockVars, devVars>>

\* Assistants.delete(assistantId): cascades to the versions and to the runs
AssistantsDelete(aid) ==
  IF aid \notin DOMAIN assistants
  THEN UNCHANGED vars
  ELSE /\ assistants' = Del(assistants, aid)
       /\ assistant_versions' = SelectSeqBy(assistant_versions,
            {v \in Range(assistant_versions) : v.assistant_id # aid})
       /\ runs' = RemoveRuns(runs, {r.run_id : r \in {x \in Range(runs) : x.assistant_id = aid}})
       /\ UNCHANGED <<now, threads, retry_counter, usedRunIds, busVars, pickers, queueVars, joinVars, stateVars, lockVars, devVars>>

\* what Assistants.setLatest leaves: outcome "404" is the HTTPException
SetLatestResult(aid, version) ==
  LET found == {i \in 1..Len(assistant_versions) :
                  /\ assistant_versions[i].assistant_id = aid
                  /\ assistant_versions[i].version = version}
  IN IF aid \notin DOMAIN assistants \/ found = {}
     THEN [outcome |-> "404", assistants |-> assistants]
     ELSE LET v == assistant_versions[CHOOSE i \in found : \A j \in found : i <= j]
          IN [outcome |-> "ok",
              assistants |-> [assistants EXCEPT ![aid] =
                [@ EXCEPT !.config = v.config, !.metadata = v.metadata,
                          !.version = v.version, !.name = v.name]]]

\* Assistants.setLatest(assistantId, version)
AssistantsSetLatest(aid, version) ==
  /\ assistants' = SetLatestResult(aid, version).assistants
  /\ UNCHANGED <<now, assistant_versions, threads, runs, retry_counter,
                 usedRunIds, busVars, pickers, queueVars, joinVars, stateVars, lockVars, devVars>>

\* .sort((a, b) => b["version"] - a["version"]): stable, descending
RECURSIVE InsertByVersion(_, _)
InsertByVersion(sorted, v) ==
  IF sorted = <<>> THEN <<v>>
  ELSE IF Head(sorted).version < v.version THEN <<v>> \o sorted
  ELSE <<Head(sorted)>> \o InsertByVersion(Tail(sorted), v)
RECURSIVE SortByVersionDesc(_)
SortByVersionDesc(vs) ==
  IF vs = <<>> THEN <<>>
  ELSE InsertByVersion(SortByVersionDesc(SubSeq(vs, 1, Len(vs) - 1)), vs[Len(vs)])

\* Array.prototype.slice(start, end) for 0 <= start
Slice(seq, start, end) ==
  LET e == IF end < Len(seq) THEN end ELSE Len(seq)
  IN IF start >= e THEN <<>> ELSE SubSeq(seq, start + 1, e)

\* Assistants.getVersions(assistantId, {limit, offset}) on the version records
\* avs, without a metadata filter
GetVersions(avs, aid, limit, offset) ==
  Slice(SortByVersionDesc(SelectSeqBy(avs, {v \in Range(avs) : v.assistant_id = aid})),
        offset, offset + limit)

\* ----------------------------------------------------------------- Threads
Graphs == {"g1", "g2"}
Values == {"v1"}
\* a checkpoint payload, as far as the store reads it: next.length > 0, values
Checkpoints == [given : {TRUE}, hasNext : BOOLEAN, values : Values]
NoCheckpoint == [given |-> FALSE, hasNext |-> FALSE, values |-> Null]
\* thread metadata: the keys the store itself writes
EmptyThreadMeta == [graph_id |-> Null, assistant_id |-> NoId]
MergeThreadMeta(a, b) ==
  [graph_id |-> IF b.graph_id # Null THEN b.graph_id ELSE a.graph_id,
   assistant_id |-> IF b.assistant_id # NoId THEN b.assistant_id ELSE a.assistant_id]

\* the record a first Threads.put stores
NewThread(metadata) ==
  [status |-> "idle", metadata |-> metadata, config |-> Null, values |-> Null]

\* what Threads.put leaves and returns: outcome "409" is the HTTPException
ThreadsPutResult(tid, metadata, if_exists) ==
  IF tid \in DOMAIN threads
  THEN IF if_exists = "raise"
       THEN [outcome |-> "409", threads |-> threads, returned |-> <<>>]
       ELSE [outcome |-> "ok", threads |-> threads, returned |-> <<threads[tid]>>]
  ELSE [outcome |-> "ok", threads |-> Put(threads, tid, NewThread(metadata)),
        returned |-> <<NewThread(metadata)>>]

\* Threads.put(threadId, {metadata, if_exists})
ThreadsPut(tid, metadata, if_exists) ==
  /\ threads' = ThreadsPutResult(tid, metadata, if_exists).threads
  /\ UNCHANGED <<now, assistants, assistant_versions, runs, retry_counter,
                 usedRunIds, busVars, pickers, queueVars, joinVars, stateVars, lockVars, devVars>>

\* Threads.patch(threadId, {metadata})
ThreadsPatch(tid, metadata) ==
  IF tid \notin DOMAIN threads
  THEN UNCHANGED vars
  ELSE /\ threads' = [threads EXCEPT ![tid] =
            [@ EXCEPT !.metadata = MergeThreadMeta(@, metadata)]]
       /\ UNCHANGED <<now, assistants, assistant_versions, runs, retry_counter,
                      usedRunIds, busVars, pickers, queueVars, joinVars, stateVars, lockVars, devVars>>

\* the status Threads.setStatus derives
DerivedStatusNoPending(tid, checkpoint, exception) ==
  LET hasNext == IF checkpoint.given THEN checkpoint.hasNext ELSE FALSE
  IN IF exception THEN "error"
     ELSE IF hasNext THEN "interrupted"
     ELSE "idle"
DerivedStatus(tid, checkpoint, exception) ==
  LET hasNext == IF checkpoint.given THEN checkpoint.hasNext ELSE FALSE
      hasPendingRuns == \E i \in 1..Len(runs) :
                           runs[i].thread_id = tid /\ runs[i].status = "pending"
  IN IF exception THEN "error"
     ELSE IF hasNext THEN "interrupted"
     ELSE IF hasPendingRuns THEN "busy"
     ELSE "idle"

\* the thread record Threads.setStatus leaves
SetStatusResult(tid, checkpoint, exception) ==
  [threads[tid] EXCEPT !.status = DerivedStatus(tid, checkpoint, exception),
                       !.values = IF checkpoint.given THEN checkpoint.values ELSE Null]

\* Threads.setStatus(threadId, {checkpoint?, exception?})
ThreadsSetStatus(tid, checkpoint, exception) ==
  IF tid \notin DOMAIN threads
  THEN UNCHANGED vars
  ELSE /\ threads' = [threads EXCEPT ![tid] = SetStatusResult(tid, checkpoint, exception)]
       /\ UNCHANGED <<now, assistants, assistant_versions, runs, retry_counter,
                      usedRunIds, busVars, pickers, queueVars, joinVars, stateVars, lockVars, devVars>>

\* Threads.delete(threadId): cascades to the runs of the thread
ThreadsDeleteNoCascade(tid) ==
  IF tid \notin DOMAIN threads
  THEN UNCHANGED vars
  ELSE /\ threads' = Del(threads, tid)
       /\ UNCHANGED <<now, assistants, assistant_versions, runs, retry_counter,
                      usedRunIds, busVars, pickers, queueVars, joinVars, stateVars, lockVars, devVars>>
ThreadsDelete(tid) ==
  IF tid \notin DOMAIN threads
  THEN UNCHANGED vars
  ELSE /\ threads' = Del(threads, tid)
       /\ runs' = RemoveRuns(runs, {r.run_id : r \in {x \in Range(runs) : x.thread_id = tid}})
       /\ UNCHANGED <<now, assistants, assistant_versions, retry_counter,
                      usedRunIds, busVars, pickers, queueVars, joinVars, stateVars, lockVars, devVars>>

\* -------------------------------------------------------------------- Runs
\* the runs of a thread with status pending, in store order
Inflight(rs, tid) ==
  SelectSeqBy(rs, {r \in Range(rs) : r.thread_id = tid /\ r.status = "pending"})

RunIdsOf(rs) == [i \in 1..Len(rs) |-> rs[i].run_id]

\* Object.assign({}, a, b, ...) on one config key: the last source that has
\* the key wins; Null is "key absent"
AssignConfig(sources) ==
  LET has == {i \in 1..Len(sources) : sources[i] # Null}
  IN IF has = {} THEN Null
     ELSE sources[CHOOSE i \in has : \A j \in has : j <= i]

\* Runs.put creates the thread: none exists and none was named or
\* ifNotExists is "create"
PutCreatesThreadAlways(existing, threadId, ifNotExists) == ~existing
PutCreatesThread(existing, threadId, ifNotExists) ==
  ~existing /\ (threadId = NoId \/ ifNotExists = "create")

\* Runs.put marks the existing thread busy and merges into it
PutMarksBusyIdleOnly(status) == status = "idle"
PutMarksBusyNever(status) == FALSE
PutMarksBusy(status) == status # "busy"

\* Runs.put inserts the new run
PutInsertsAlways(preventInsertInInflight, inflightRuns) == TRUE
PutInserts(preventInsertInInflight, inflightRuns) ==
  ~(preventInsertInInflight /\ inflightRuns # <<>>)

\* what Runs.put(runId, assistantId, {config}, {threadId, status,
\* preventInsertInInflight, ifNotExists, afterSeconds}) leaves and returns;
\* threadId NoId is "not given", newId is the uuid4() drawn for it, config Null
\* is "no config given"
RunsPutResult(rid, aid, threadId, newId, status, config, preventInsertInInflight, ifNotExists, afterSeconds) ==
  LET assistant == assistants[aid]
      existing == threadId \in DOMAIN threads
      created == PutCreatesThread(existing, threadId, ifNotExists)
      tid == IF threadId # NoId THEN threadId ELSE newId
      seed == [graph_id |-> assistant.graph_id, assistant_id |-> aid]
      ths == IF created
             THEN Put(threads, tid,
                      [status |-> "busy",
                       metadata |-> seed,
                       config |-> AssignConfig(<<assistant.config, config>>),
                       values |-> Null])
             ELSE IF existing /\ PutMarksBusy(threads[tid].status)
             THEN [threads EXCEPT ![tid] =
                    [@ EXCEPT !.status = "busy",
                              !.metadata = MergeThreadMeta(@, seed),
                              !.config = AssignConfig(<<assistant.config, @, config>>)]]
             ELSE threads
      inflightRuns == Inflight(runs, tid)
      newRun == [run_id |-> rid, thread_id |-> tid, assistant_id |-> aid,
                 status |-> status, created_at |-> now + afterSeconds,
                 updated_at |-> now]
  IN IF aid \notin DOMAIN assistants
     THEN [outcome |-> "404", threads |-> threads, runs |-> runs, returned |-> <<>>]
     ELSE IF ~created /\ ~existing
     THEN [outcome |-> "ok", threads |-> threads, runs |-> runs, returned |-> <<>>]
     ELSE IF ~PutInserts(preventInsertInInflight, inflightRuns)
     THEN [outcome |-> "ok", threads |-> ths, runs |-> runs,
           returned |-> RunIdsOf(inflightRuns)]
     ELSE [outcome |-> "ok", threads |-> ths, runs |-> Append(runs, newRun),
           returned |-> <<rid>> \o RunIdsOf(inflightRuns)]

\* Runs.put; the caller passes a run id that was never used
RunsPut(rid, aid, threadId, status, config, preventInsertInInflight, ifNotExists, afterSeconds) ==
  /\ rid \notin usedRunIds
  /\ \E newId \in (IF threadId = NoId THEN ThreadIds \ DOMAIN threads ELSE {threadId}) :
       LET res == RunsPutResult(rid, aid, threadId, newId, status, config,
                                preventInsertInInflight, ifNotExists, afterSeconds)
       IN /\ threads' = res.threads
          /\ runs' = res.runs
          /\ usedRunIds' = IF res.runs # runs THEN usedRunIds \cup {rid} ELSE usedRunIds
  /\ UNCHANGED <<now, assistants, assistant_versions, retry_counter,
                 busVars, pickers, queueVars, joinVars, stateVars, lockVars, devVars>>

\* Runs.delete(runId, threadId)
RunsDeleteFinds(rid, threadId) ==
  HasRun(rid) /\ (threadId = NoId \/ GetRun(rid).thread_id = threadId)
RunsDelete(rid, threadId) ==
  IF ~RunsDeleteFinds(rid, threadId)
  THEN UNCHANGED vars
  ELSE /\ runs' = RemoveRuns(runs, {rid})
       /\ UNCHANGED <<now, assistants, assistant_versions, threads, retry_counter,
                      usedRunIds, busVars, pickers, queueVars, joinVars, stateVars, lockVars, devVars>>

\* Runs.setStatus(runId, status)
RunsSetStatus(rid, status) ==
  IF ~HasRun(rid)
  THEN UNCHANGED vars
  ELSE /\ runs' = [runs EXCEPT ![RunIndex(rid)] =
            [@ EXCEPT !.status = status, !.updated_at = now]]
       /\ UNCHANGED <<now, assistants, assistant_versions, threads, retry_counter,
                      usedRunIds, busVars, pickers, queueVars, joinVars, stateVars, lockVars, devVars>>

\* an abort that takes the reason of every call
AbortOverwrites(handle, reason) == reason
\* CancellationAbortController.abort(reason): an AbortController aborts once
Abort(handle, reason) == IF handle = "live" THEN reason ELSE handle

\* a cancel that sends no cancellation message
ControlAbortSkipped(ctl, action) == ctl
\* control?.abort(options.action ?? "interrupt"): nothing without a handle
ControlAbort(ctl, action) == IF ctl # Null THEN Abort(ctl, action) ELSE Null

\* what Runs.cancel does to a found run: "interrupt" (status interrupted),
\* "delete" (eager Runs.delete) or "none" (warning only)
CancelDecisionNeverDelete(status, hasControl, action) ==
  IF status = "pending" THEN "interrupt" ELSE "none"
CancelDecisionIgnoreControl(status, hasControl, action) ==
  IF status = "pending"
  THEN IF action # "rollback" THEN "interrupt" ELSE "delete"
  ELSE "none"
CancelDecisionAnyStatus(status, hasControl, action) ==
  IF hasControl \/ action # "rollback" THEN "interrupt" ELSE "delete"
CancelDecision(status, hasControl, action) ==
  IF status = "pending"
  THEN IF hasControl \/ action # "rollback" THEN "interrupt" ELSE "delete"
  ELSE "none"

\* the loop of Runs.cancel over runIds; st = [runs, control, found, del]
RECURSIVE CancelLoop(_, _, _, _, _)
CancelLoop(threadId, runIds, action, t, st) ==
  IF runIds = <<>> THEN st
  ELSE LET runId == Head(runIds)
           found == {i \in 1..Len(st.runs) : st.runs[i].run_id = runId}
       IN IF found = {}
          THEN CancelLoop(threadId, Tail(runIds), action, t, st)
          ELSE LET i == CHOOSE j \in found : TRUE
                   run == st.runs[i]
                   ctl == st.control[runId]
                   aborted == [st EXCEPT !.found = @ + 1,
                                         !.control[runId] = ControlAbort(ctl, action)]
                   decision == CancelDecision(run.status, ctl # Null, action)
               IN IF threadId # NoId /\ run.thread_id # threadId
                  THEN CancelLoop(threadId, Tail(runIds), action, t, st)
                  ELSE IF decision = "interrupt"
                  THEN CancelLoop(threadId, Tail(runIds), action, t,
                         [aborted EXCEPT !.runs[i] =
                            [@ EXCEPT !.status = "interrupted", !.updated_at = t]])
                  ELSE IF decision = "delete"
                  THEN CancelLoop(threadId, Tail(runIds), action, t,
                         [aborted EXCEPT !.del = @ \cup {runId}])
                  ELSE CancelLoop(threadId, Tail(runIds), action, t, aborted)

\* a Runs.cancel that is content with having found any of the listed runs
CancelResultAnyFound(rs, ctl, threadId, runIds, action, t) ==
  LET act == IF action # Null THEN action ELSE "interrupt"
      st == CancelLoop(threadId, runIds, act, t,
                       [runs |-> rs, control |-> ctl, found |-> 0, del |-> {}])
  IN [runs |-> RemoveRuns(st.runs, st.del),
      control |-> st.control,
      outcome |-> IF st.found > 0 THEN "ok" ELSE "404"]

\* a Runs.cancel that undoes what its loop did when it ends with 404
CancelResultAllOrNothing(rs, ctl, threadId, runIds, action, t) ==
  LET act == IF action # Null THEN action ELSE "interrupt"
      st == CancelLoop(threadId, runIds, act, t,
                       [runs |-> rs, control |-> ctl, found |-> 0, del |-> {}])
  IN IF st.found = Len(runIds)
     THEN [runs |-> RemoveRuns(st.runs, st.del), control |-> st.control, outcome |-> "ok"]
     ELSE [runs |-> rs, control |-> ctl, outcome |-> "404"]

\* Runs.cancel(threadId, runIds, {action}) at time t on the runs rs and the
\* handles ctl; action Null is "not given".  The eager Runs.delete calls are
\* settled by Promise.all before the call returns; the outcome is "404" when
\* fewer runs were found than listed.
CancelResult(rs, ctl, threadId, runIds, action, t) ==
  LET act == IF action # Null THEN action ELSE "interrupt"
      st == CancelLoop(threadId, runIds, act, t,
                       [runs |-> rs, control |-> ctl, found |-> 0, del |-> {}])
  IN [runs |-> RemoveRuns(st.runs, st.del),
      control |-> st.control,
      outcome |-> IF st.found = Len(runIds) THEN "ok" ELSE "404"]

\* a numeric option that is null or not given
NoNumber == 0 - 1
\* Runs.search(threadId, {limit, offset, status}) on the runs rs: the runs of
\* the thread, with the status when one is given, in store order, then
\* runs.slice(offset ?? 0, limit ?? 10); no metadata filter is given
RunsSearchMatches(rs, threadId, status) ==
  SelectSeqBy(rs, {r \in Range(rs) : r.thread_id = threadId /\ (status = Null \/ r.status = status)})
RunsSearch(rs, threadId, status, limit, offset) ==
  Slice(RunsSearchMatches(rs, threadId, status),
        IF offset # NoNumber THEN offset ELSE 0,
        IF limit # NoNumber THEN limit ELSE 10)

RunsCancel(threadId, runIds, action) ==
  LET res == CancelResult(runs, control, threadId, runIds, action, now)
  IN /\ runs' = res.runs
     /\ control' = res.control
     /\ UNCHANGED <<now, assistants, assistant_versions, threads, retry_counter,
                    usedRunIds, pickers, queueVars, joinVars, stateVars, lockVars, devVars>>

\* ------------------------------------------------------------------ picker
\* StreamManagerImpl.isLocked / lock / unlock on the control table
\* an isLocked that never sees a handle
IsLockedNever(ctl, runId) == FALSE
IsLocked(ctl, runId) == ctl[runId] # Null
Lock(ctl, runId) == [ctl EXCEPT ![runId] = "live"]
\* an unlock that leaves the handle in the table
UnlockNever(ctl, runId) == ctl
Unlock(ctl, runId) == [ctl EXCEPT ![runId] = Null]

\* Array.prototype.sort((a, b) => a.created_at - b.created_at): stable
RECURSIVE InsertByCreatedAt(_, _)
InsertByCreatedAt(x, s) ==
  IF s = <<>> THEN <<x>>
  ELSE IF Head(s).created_at <= x.created_at
       THEN <<Head(s)>> \o InsertByCreatedAt(x, Tail(s))
       ELSE <<x>> \o s

\* a sort that leaves the store order
SortByCreatedAtNone(s) == s
RECURSIVE SortByCreatedAt(_)
SortByCreatedAt(s) ==
  IF s = <<>> THEN <<>>
  ELSE InsertByCreatedAt(s[Len(s)], SortByCreatedAt(SubSeq(s, 1, Len(s) - 1)))

\* the filter of Runs.next: pending and due
IsDue(run, t) == run.status = "pending" /\ run.created_at < t

\* pendingRuns of Runs.next
PendingRuns == SortByCreatedAt(SelectSeqBy(runs, {r \in Range(runs) : IsDue(r, now)}))

IdlePicker == [pc |-> "idle", list |-> <<>>, idx |-> 0, yielded |-> <<>>,
               skipped |-> {}, attempt |-> 0]

\* the loop of Runs.next from position `from`: the first run whose thread exists
\* and that is not locked, or 0 when the loop runs off the end
ScanFrom(list, from, ctl) ==
  LET ok == {i \in from..Len(list) :
               list[i].thread_id \in DOMAIN threads /\ ~IsLocked(ctl, list[i].run_id)}
  IN IF ok = {} THEN 0 ELSE CHOOSE i \in ok : \A j \in ok : i <= j

\* STORE.retry_counter[runId] ??= 0; STORE.retry_counter[runId] += 1
BumpOnce(counter, runId) == [counter EXCEPT ![runId] = 1]
Bump(counter, runId) == [counter EXCEPT ![runId] = @ + 1]

\* run the generator body of picker p from position `from` to its next yield or its end
PickerAdvance(p, list, from, ctl, yielded, skipped) ==
  LET i == ScanFrom(list, from, ctl)
  IN IF i = 0
     THEN /\ pickers' = [pickers EXCEPT ![p] = IdlePicker]
          /\ control' = ctl
          /\ UNCHANGED retry_counter
     ELSE LET runId == list[i].run_id
          IN /\ retry_counter[runId] < MaxRetry
             /\ control' = Lock(ctl, runId)
             /\ retry_counter' = Bump(retry_counter, runId)
             /\ pickers' = [pickers EXCEPT ![p] =
                  [pc |-> "held", list |-> list, idx |-> i,
                   yielded |-> Append(yielded, runId),
                   skipped |-> skipped \cup {list[j].run_id : j \in from..(i - 1)},
                   attempt |-> Bump(retry_counter, runId)[runId]]]

\* the first next() on a Runs.next() generator
PickerStart(p) ==
  /\ pickers[p].pc = "idle"
  /\ PendingRuns # <<>>
  /\ PickerAdvance(p, PendingRuns, 1, control, <<>>, {})
  /\ UNCHANGED <<now, assistants, assistant_versions, threads, runs, usedRunIds, queueVars, joinVars, stateVars, lockVars, devVars>>

\* the consumer asks for the next item: finally { unlock }, then the loop goes on
PickerResume(p) ==
  /\ pickers[p].pc = "held"
  /\ LET q == pickers[p]
     IN PickerAdvance(p, q.list, q.idx + 1, Unlock(control, q.list[q.idx].run_id),
                      q.yielded, q.skipped)
  /\ UNCHANGED <<now, assistants, assistant_versions, threads, runs, usedRunIds, queueVars, joinVars, stateVars, lockVars, devVars>>

\* the consumer closes the generator at the yield (break, or an exception)
PickerClose(p) ==
  /\ pickers[p].pc = "held"
  /\ control' = Unlock(control, pickers[p].list[pickers[p].idx].run_id)
  /\ pickers' = [pickers EXCEPT ![p] = IdlePicker]
  /\ UNCHANGED <<now, storeVars, queueVars, joinVars, stateVars, lockVars, devVars>>

\* time passes
Tick(limit) ==
  /\ now < limit
  /\ now' = now + 1
  /\ UNCHANGED <<storeVars, busVars, pickers, queueVars, joinVars, stateVars, lockVars, devVars>>

\* ----------------------------------------------------------- Threads.State
\* The graph library is not part of the store: graph[t] holds the states its
\* checkpointer has for thread t, oldest first.  updateState and
\* bulkUpdateState add the state they arrive at, getState returns the newest.
GraphValues == {"s1", "s2"}
EmptyValues == "{}"
IdlePost == [pc |-> "off", kind |-> Null, thread_id |-> NoId, at |-> 0, read |-> Null,
             outcome |-> Null]

\* a check that does not look at the graph id
PostCheckNoGraphId(ths, threadId) ==
  IF threadId \notin DOMAIN ths THEN "404" ELSE "ok"
\* Threads.get and the graph id test at the head of post and batch: "404" and
\* "400" are the HTTPExceptions
PostCheck(ths, threadId) ==
  IF threadId \notin DOMAIN ths THEN "404"
  ELSE IF ths[threadId].metadata.graph_id = Null THEN "400"
  ELSE "ok"

\* Threads.State.get(config, {subgraphs}) for a stored thread: values {} without
\* a graph id, else the newest state of the graph
StateGetValues(ths, g, threadId) ==
  IF ths[threadId].metadata.graph_id = Null \/ g[threadId] = <<>> THEN EmptyValues
  ELSE g[threadId][Len(g[threadId])]

RECURSIVE Reverse(_)
Reverse(seq) == IF seq = <<>> THEN <<>> ELSE Append(Reverse(Tail(seq)), Head(seq))
\* Threads.State.list(config, {limit}) for a stored thread: empty without a
\* graph id, else the newest states of getStateHistory, newest first
StateList(ths, g, threadId, limit) ==
  IF ths[threadId].metadata.graph_id = Null THEN <<>>
  ELSE Slice(Reverse(g[threadId]), 0, limit)

\* Threads.State.post / batch up to the first call of the graph
PostStart(o, kind, threadId) ==
  /\ posts[o].pc = "off"
  /\ LET res == PostCheck(threads, threadId)
     IN posts' = [posts EXCEPT ![o] =
          [@ EXCEPT !.kind = kind, !.thread_id = threadId,
                    !.pc = IF res = "ok" THEN "update" ELSE "done",
                    !.outcome = IF res = "ok" THEN Null ELSE res]]
  /\ UNCHANGED <<now, storeVars, busVars, pickers, queueVars, joinVars, graph, lockVars, devVars>>

\* graph.updateState / graph.bulkUpdateState: the graph arrives at state v
PostUpdate(o, v) ==
  /\ posts[o].pc = "update"
  /\ graph' = [graph EXCEPT ![posts[o].thread_id] = Append(@, v)]
  /\ posts' = [posts EXCEPT ![o] =
       [@ EXCEPT !.pc = "get", !.at = Len(graph[posts[o].thread_id]) + 1]]
  /\ UNCHANGED <<now, storeVars, busVars, pickers, queueVars, joinVars, lockVars, devVars>>

\* Threads.State.get(config, {subgraphs: false}): Threads.get throws 404 for a
\* thread that is gone
PostGet(o) ==
  /\ posts[o].pc = "get"
  /\ posts' = [posts EXCEPT ![o] =
       IF posts[o].thread_id \notin DOMAIN threads
       THEN [@ EXCEPT !.pc = "done", !.outcome = "404"]
       ELSE [@ EXCEPT !.pc = "write",
                      !.read = StateGetValues(threads, graph, posts[o].thread_id)]]
  /\ UNCHANGED <<now, storeVars, busVars, pickers, queueVars, joinVars, graph, lockVars, devVars>>

\* the conn.with that writes state.values into the thread, if it is stored
PostWrite(o) ==
  /\ posts[o].pc = "write"
  /\ threads' = IF posts[o].thread_id \in DOMAIN threads
                THEN [threads EXCEPT ![posts[o].thread_id].values = posts[o].read]
                ELSE threads
  /\ posts' = [posts EXCEPT ![o] = [@ EXCEPT !.pc = "done", !.outcome = "ok"]]
  /\ UNCHANGED <<now, assistants, assistant_versions, runs, retry_counter, usedRunIds,
                 busVars, pickers, queueVars, joinVars, graph, lockVars, devVars>>

\* ------------------------------------------------------- Runs.Stream.join
\* The one queue of the model is StreamManager.readers[QRun]: every join and
\* every publish below is for run QRun.
QRun == 1
\* a topic is the sequence of the parts its string has between the colons
ControlTopic(runId) == <<"run", runId, "control">>
StreamPrefix(runId) == <<"run", runId, "stream">>
ErrorEvent == [event |-> <<"error">>, data |-> "Run not found"]
IdleJoin == [pc |-> "off", thread_id |-> NoId, ignore404 |-> FALSE, signal |-> "live",
             events |-> <<>>, cancel |-> Null]

\* Runs.get(runId, threadId): the run, or null when it is absent or on another thread
NoRun == [run_id |-> NoId, thread_id |-> NoId, assistant_id |-> NoId, status |-> Null,
          created_at |-> 0, updated_at |-> 0]
RunsGet(rs, runId, threadId) ==
  IF \E i \in 1..Len(rs) : rs[i].run_id = runId
  THEN LET run == rs[CHOOSE i \in 1..Len(rs) : rs[i].run_id = runId]
       IN IF threadId # NoId /\ run.thread_id # threadId THEN NoRun ELSE run
  ELSE NoRun

\* the message Runs.Stream.publish(runId, topic, data) pushes
StreamMessage(runId, call) ==
  [topic |-> StreamPrefix(runId) \o <<call.topic>>, data |-> call.data]
\* the message behind item i of the queue
MessageOf(i) == StreamMessage(QRun, published[i])

\* the try block of join on a dequeued message: break, continue or yield
JoinOnMessage(runId, message) ==
  IF message.topic = ControlTopic(runId)
  THEN IF message.data = "done" THEN [pc |-> "exit", events |-> <<>>]
       ELSE [pc |-> "loop", events |-> <<>>]
  ELSE [pc |-> "loop",
        events |-> <<[event |-> SubSeq(message.topic, Len(StreamPrefix(runId)) + 1,
                                       Len(message.topic)),
                      data |-> message.data]>>]

\* a catch block that ends the join whatever the status of the run
JoinOnErrorPendingEnds(run, ignore404) ==
  IF run = NoRun
  THEN IF ignore404 THEN [pc |-> "exit", events |-> <<>>]
       ELSE [pc |-> "break", events |-> <<ErrorEvent>>]
  ELSE [pc |-> "exit", events |-> <<>>]
\* the catch block of join on an error that is no AbortError
JoinOnError(run, ignore404) ==
  IF run = NoRun
  THEN IF ignore404 THEN [pc |-> "exit", events |-> <<>>]
       ELSE [pc |-> "break", events |-> <<ErrorEvent>>]
  ELSE IF run.status # "pending" THEN [pc |-> "exit", events |-> <<>>]
  ELSE [pc |-> "loop", events |-> <<>>]

\* what a finished queue.get leaves of the join: a message goes through the try
\* block, undefined makes message.topic throw a TypeError, which the catch takes
JoinOnItem(j, item) ==
  LET res == IF item = Undefined
             THEN JoinOnError(RunsGet(runs, QRun, j.thread_id), j.ignore404)
             ELSE JoinOnMessage(QRun, MessageOf(item))
  IN [j EXCEPT !.pc = res.pc, !.events = @ \o res.events]

\* a test that forgets the thread id
JoinCancelsAlways(signal, threadId) == signal = "aborted"
\* signal?.aborted && threadId != null
JoinCancels(signal, threadId) == signal = "aborted" /\ threadId # NoId

\* what the statement after the loop leaves of the store and the handles
JoinExitResult(j) ==
  IF JoinCancels(j.signal, j.thread_id)
  THEN CancelResult(runs, control, j.thread_id, <<QRun>>, "interrupt", now)
  ELSE [runs |-> runs, control |-> control, outcome |-> Null]

\* Runs.Stream.publish(runId, topic, data)
StreamPublish(topic, data) ==
  /\ QueuePush
  /\ published' = Append(published, [topic |-> topic, data |-> data])
  /\ UNCHANGED <<joins, stateVars, lockVars, devVars>>

\* Runs.Stream.join(runId, threadId, {ignore404, cancelOnDisconnect}): the
\* generator is made; its body runs from the first next()
JoinStart(s, threadId, ignore404) ==
  /\ joins[s].pc = "off"
  /\ joins' = [joins EXCEPT ![s] = [@ EXCEPT !.pc = "loop", !.thread_id = threadId,
                                              !.ignore404 = ignore404]]
  /\ UNCHANGED <<now, storeVars, busVars, pickers, queueVars, published, stateVars, lockVars, devVars>>

\* next() on the generator: past the yield it stopped at, the loop tests the
\* signal and calls queue.get
JoinNext(s) ==
  /\ joins[s].pc \in {"loop", "break"}
  /\ IF joins[s].pc = "break" \/ joins[s].signal = "aborted"
     THEN /\ joins' = [joins EXCEPT ![s].pc = "exit"]
          /\ UNCHANGED <<now, storeVars, busVars, pickers, queueVars, published, stateVars, lockVars, devVars>>
     ELSE /\ QueueGet(s)
          /\ joins' = [joins EXCEPT ![s] =
               IF Len(qbuffer) > 0 THEN JoinOnItem(@, QShift(qbuffer).item)
               ELSE [@ EXCEPT !.pc = "get"]]
          /\ UNCHANGED <<published, stateVars, lockVars, devVars>>

\* a push has woken the get of the join: its continuation takes the message
JoinTake(s) ==
  /\ joins[s].pc = "get"
  /\ QueueTake(s)
  /\ joins' = [joins EXCEPT ![s] = JoinOnItem(@, QShift(qbuffer).item)]
  /\ UNCHANGED <<published, stateVars, lockVars, devVars>>

\* the 500 ms timer of the get fires: TimeoutError, Runs.get decides
JoinTimeout(s) ==
  /\ joins[s].pc = "get"
  /\ QueueTimeout(s)
  /\ LET res == JoinOnError(RunsGet(runs, QRun, joins[s].thread_id), joins[s].ignore404)
     IN joins' = [joins EXCEPT ![s] = [@ EXCEPT !.pc = res.pc, !.events = @ \o res.events]]
  /\ UNCHANGED <<published, stateVars, lockVars, devVars>>

\* cancelOnDisconnect aborts, from a task of its own (never between a push and
\* the continuation it has woken, nor inside the run of the exit statement): a
\* waiting get rejects with AbortError and the loop breaks
JoinSignalAbort(s) ==
  /\ joins[s].signal = "live"
  /\ joins[s].pc \notin {"exit", "done"}
  /\ subs[s].pc # "woken"
  /\ IF joins[s].pc = "get"
     THEN /\ QueueAbort(s)
          /\ joins' = [joins EXCEPT ![s] = [@ EXCEPT !.signal = "aborted", !.pc = "exit"]]
     ELSE /\ joins' = [joins EXCEPT ![s].signal = "aborted"]
          /\ UNCHANGED <<now, storeVars, busVars, pickers, queueVars>>
  /\ UNCHANGED <<published, stateVars, lockVars, devVars>>

\* past the loop: Runs.cancel(threadId, [runId], {action: "interrupt"}) when
\* the signal has aborted and the thread id is known
JoinExit(s) ==
  /\ joins[s].pc = "exit"
  /\ LET res == JoinExitResult(joins[s])
     IN /\ runs' = res.runs
        /\ control' = res.control
        /\ joins' = [joins EXCEPT ![s] = [@ EXCEPT !.pc = "done", !.cancel = res.outcome]]
  /\ UNCHANGED <<now, assistants, assistant_versions, threads, retry_counter, usedRunIds,
                 pickers, queueVars, published, stateVars, lockVars, devVars>>

\* ----------------------------------------------------------- specification
\* ------------------------------------------------------------------ persistence lock
\* Runs.cancel and Runs.delete as calls that go through conn.with, which grants
\* its callbacks exclusive access one at a time
CallIds == 1..MaxCalls
IdleCall == [pc |-> "off", thread_id |-> NoId, run_ids |-> <<>>, action |-> Null,
             found |-> 0, outcome |-> Null]
\* a delete request: the cancel call that made it (NoId: a caller of its own)
DeleteRequest(parent, rid, threadId) ==
  [parent |-> parent, run_id |-> rid, thread_id |-> threadId]

\* conn.with lets a callback in when no other callback is running
LockFree == lock = NoId

\* Runs.cancel(threadId, runIds, {action}) is called: conn.with is asked
CancelCall(c, threadId, runIds, action) ==
  /\ calls[c].pc = "off"
  /\ calls' = [calls EXCEPT ![c] = [IdleCall EXCEPT !.pc = "wait", !.thread_id = threadId,
                                                      !.run_ids = runIds, !.action = action]]
  /\ UNCHANGED <<now, storeVars, busVars, pickers, queueVars, joinVars, stateVars,
                 lock, deletes, devVars>>

\* the callback of Runs.cancel runs up to `await Promise.all(promises)`: the
\* loop fires handles, interrupts runs and calls Runs.delete for the runs to
\* delete, each of which asks conn.with in turn
CancelEnter(c) ==
  /\ calls[c].pc = "wait"
  /\ LockFree
  /\ LET q == calls[c]
         st == CancelLoop(q.thread_id, q.run_ids,
                          IF q.action # Null THEN q.action ELSE "interrupt", now,
                          [runs |-> runs, control |-> control, found |-> 0, del |-> {}])
     IN /\ runs' = st.runs
        /\ control' = st.control
        /\ deletes' = deletes \cup {DeleteRequest(c, r, q.thread_id) : r \in st.del}
        /\ calls' = [calls EXCEPT ![c] = [@ EXCEPT !.pc = "await", !.found = st.found]]
  /\ lock' = c
  /\ UNCHANGED <<now, assistants, assistant_versions, threads, retry_counter, usedRunIds,
                 pickers, queueVars, joinVars, stateVars, devVars>>

\* Promise.all(promises) has settled: the callback returns, or throws 404 when
\* fewer runs were found than listed, and conn.with lets the next callback in
CancelReturn(c) ==
  /\ calls[c].pc = "await"
  /\ \A d \in deletes : d.parent # c
  /\ calls' = [calls EXCEPT ![c] =
       [@ EXCEPT !.pc = "done",
                 !.outcome = IF calls[c].found = Len(calls[c].run_ids) THEN "ok"
                             ELSE "404"]]
  /\ lock' = NoId
  /\ UNCHANGED <<now, storeVars, busVars, pickers, queueVars, joinVars, stateVars,
                 deletes, devVars>>

\* Runs.delete(runId, threadId) is called by a caller of its own: conn.with is asked
DeleteCall(rid, threadId) ==
  /\ DeleteRequest(NoId, rid, threadId) \notin deletes
  /\ deletes' = deletes \cup {DeleteRequest(NoId, rid, threadId)}
  /\ UNCHANGED <<now, storeVars, busVars, pickers, queueVars, joinVars, stateVars,
                 lock, calls, devVars>>

\* the callback of a Runs.delete runs: it has no await, so it returns (or
\* throws "Run not found") in the same step
DeleteEnter(d) ==
  /\ d \in deletes
  /\ LockFree
  /\ runs' = IF RunsDeleteFinds(d.run_id, d.thread_id) THEN RemoveRuns(runs, {d.run_id})
             ELSE runs
  /\ deletes' = deletes \ {d}
  /\ UNCHANGED <<now, assistants, assistant_versions, threads, retry_counter, usedRunIds,
                 busVars, pickers, queueVars, joinVars, stateVars, lock, calls, devVars>>

\* ------------------------------------------------------------------ dev command
\* the launchServer calls of the dev command; a spawned server process has the
\* number of the call that spawned it
LaunchIds == 1..MaxLaunches
IdleLaunch == [pc |-> "off"]

\* launchServer() is called, at startup or by a watcher event, and waits in
\* `await prepareContext()`
LaunchCall(l) ==
  /\ launches[l].pc = "off"
  /\ launches' = [launches EXCEPT ![l].pc = "prepare"]
  /\ UNCHANGED <<now, storeVars, busVars, pickers, queueVars, joinVars, stateVars,
                 lockVars, child, alive>>

\* if (child != null) child.kill()
Kill(procs, c) == procs \ {c}

\* prepareContext() has resolved: the child in the variable is killed and the
\* call waits for the import and for spawnNodeServer / spawnPythonServer
LaunchPrepared(l) ==
  /\ launches[l].pc = "prepare"
  /\ alive' = Kill(alive, child)
  /\ launches' = [launches EXCEPT ![l].pc = "spawn"]
  /\ UNCHANGED <<now, storeVars, busVars, pickers, queueVars, joinVars, stateVars,
                 lockVars, child>>

\* the spawn call has started the server process and resolved: child = ...
LaunchSpawned(l) ==
  /\ launches[l].pc = "spawn"
  /\ alive' = alive \cup {l}
  /\ child' = l
  /\ launches' = [launches EXCEPT ![l].pc = "done"]
  /\ UNCHANGED <<now, storeVars, busVars, pickers, queueVars, joinVars, stateVars, lockVars>>

\* process.on("exit"): the child in the variable is killed and the process ends;
\* no launchServer call goes on after it
ProcessExit ==
  /\ \E l \in LaunchIds : launches[l].pc \notin {"off", "exited"}
  /\ alive' = Kill(alive, child)
  /\ launches' = [l \in LaunchIds |-> [pc |-> "exited"]]
  /\ UNCHANGED <<now, storeVars, busVars, pickers, queueVars, joinVars, stateVars,
                 lockVars, child>>

\* ------------------------------------------------------------------ initial state
Init ==
  /\ now = 0
  /\ assistants = <<>>
  /\ assistant_versions = <<>>
  /\ threads = <<>>
  /\ runs = <<>>
  /\ retry_counter = [r \in RunIds |-> 0]
  /\ usedRunIds = {}
  /\ control = [r \in RunIds |-> Null]
  /\ pickers = [p \in PickerIds |-> IdlePicker]
  /\ qbuffer = <<>>
  /\ qlisteners = <<>>
  /\ subs = [x \in SubIds |-> IdleSub]
  /\ pushed = <<>>
  /\ published = <<>>
  /\ joins = [x \in SubIds |-> IdleJoin]
  /\ graph = [t \in ThreadIds |-> <<>>]
  /\ posts = [o \in PostIds |-> IdlePost]
  /\ lock = NoId
  /\ calls = [c \in CallIds |-> IdleCall]
  /\ deletes = {}
  /\ child = NoId
  /\ alive = {}
  /\ launches = [l \in LaunchIds |-> IdleLaunch]

\* the inputs the operations are called with
OnConflict == {"raise", "do_nothing"}
Configs == {"c1", "c2"}
\* the run ids of a cancel call: distinct, and listed in ascending order
CancelLists ==
  {s \in UNION {[1..n -> RunIds] : n \in 1..MaxCancel} :
     \A i, j \in 1..Len(s) : i < j => s[i] < s[j]}
\* uuid4(): an id that was never used; the model takes the smallest
FreshRunIds == {r \in RunIds \ usedRunIds : \A x \in RunIds \ usedRunIds : r <= x}

\* ---- the assistant store on its own
AssistPut ==
  \E aid \in AssistantIds, g \in Graphs, c \in Configs, e \in OnConflict :
    AssistantsPut(aid, g, c, EmptyMeta, Null, e)
AssistPatch ==
  \E aid \in AssistantIds, g \in Graphs \cup {Null}, c \in Configs \cup {Null} :
    AssistantsPatch(aid, g, c, EmptyMeta, Null)
AssistDelete == \E aid \in AssistantIds : AssistantsDelete(aid)
AssistSetLatest ==
  \E aid \in AssistantIds, v \in 1..MaxVersion : AssistantsSetLatest(aid, v)

NextAssistants == AssistPut \/ AssistPatch \/ AssistDelete \/ AssistSetLatest

SpecAssistants == Init /\ [][NextAssistants]_vars

\* ---- one queue of the stream bus and its subscribers
QPush == QueuePush /\ UNCHANGED <<joinVars, stateVars, lockVars, devVars>>
QGet == \E sub \in SubIds : QueueGet(sub) /\ UNCHANGED <<joinVars, stateVars, lockVars, devVars>>
QTake == \E sub \in SubIds : QueueTake(sub) /\ UNCHANGED <<joinVars, stateVars, lockVars, devVars>>
QTimeout == \E sub \in SubIds : QueueTimeout(sub) /\ UNCHANGED <<joinVars, stateVars, lockVars, devVars>>
QAbort == \E sub \in SubIds : QueueAbort(sub) /\ UNCHANGED <<joinVars, stateVars, lockVars, devVars>>

NextQueue == QPush \/ QGet \/ QTake \/ QTimeout \/ QAbort

SpecQueue == Init /\ [][NextQueue]_vars

\* ---- thread status: threads and runs are created, runs finish or are
\* ---- cancelled, and the executor reports checkpoints and errors
TsAssistPut == \E aid \in AssistantIds : AssistantsPut(aid, "g1", "c1", EmptyMeta, Null, "raise")
TsThreadsPut == \E tid \in ThreadIds : ThreadsPut(tid, EmptyThreadMeta, "raise")
TsThreadsSetStatus ==
  \E tid \in ThreadIds, cp \in Checkpoints \cup {NoCheckpoint}, exc \in BOOLEAN :
    ThreadsSetStatus(tid, cp, exc)
TsRunsPut ==
  \E rid \in FreshRunIds, aid \in AssistantIds, tid \in ThreadIds :
    RunsPut(rid, aid, tid, "pending", Null, FALSE, "create", 0)
TsRunsSetStatus == \E rid \in RunIds : RunsSetStatus(rid, "success")
TsRunsCancel == \E rid \in RunIds : RunsCancel(NoId, <<rid>>, "rollback")

NextStatus ==
  \/ TsAssistPut \/ TsThreadsPut \/ TsThreadsSetStatus \/ TsRunsPut \/ TsRunsSetStatus
  \/ TsRunsCancel

SpecStatus == Init /\ [][NextStatus]_vars

\* ---- referential integrity: every operation that creates or deletes an
\* ---- assistant, a thread or a run
RiAssistPut ==
  \E aid \in AssistantIds, e \in OnConflict : AssistantsPut(aid, "g1", "c1", EmptyMeta, Null, e)
RiAssistPatch == \E aid \in AssistantIds : AssistantsPatch(aid, Null, "c2", EmptyMeta, Null)
RiAssistDelete == \E aid \in AssistantIds : AssistantsDelete(aid)
RiThreadsPut == \E tid \in ThreadIds, e \in OnConflict : ThreadsPut(tid, EmptyThreadMeta, e)
RiThreadsPatch ==
  \E tid \in ThreadIds : ThreadsPatch(tid, [graph_id |-> "g1", assistant_id |-> NoId])
RiThreadsSetStatus == \E tid \in ThreadIds : ThreadsSetStatus(tid, NoCheckpoint, FALSE)
RiThreadsDelete == \E tid \in ThreadIds : ThreadsDelete(tid)
RiRunsPut ==
  \E rid \in FreshRunIds, aid \in AssistantIds, tid \in ThreadIds \cup {NoId},
     ine \in {"create", "reject"} :
    RunsPut(rid, aid, tid, "pending", Null, FALSE, ine, 0)
RiRunsSetStatus == \E rid \in RunIds : RunsSetStatus(rid, "success")
RiRunsDelete == \E rid \in RunIds : RunsDelete(rid, NoId)
RiRunsCancel ==
  \E ids \in CancelLists, a \in CancelAction : RunsCancel(NoId, ids, a)

NextIntegrity ==
  \/ RiAssistPut \/ RiAssistPatch \/ RiAssistDelete
  \/ RiThreadsPut \/ RiThreadsPatch \/ RiThreadsSetStatus \/ RiThreadsDelete
  \/ RiRunsPut \/ RiRunsSetStatus \/ RiRunsDelete \/ RiRunsCancel

SpecIntegrity == Init /\ [][NextIntegrity]_vars

\* ---- cancellation: runs are created, handed out by one Runs.next()
\* ---- generator, finished, cancelled and deleted
CnAssistPut == \E aid \in AssistantIds : AssistantsPut(aid, "g1", "c1", EmptyMeta, Null, "raise")
CnRunsPut ==
  \E rid \in FreshRunIds, aid \in AssistantIds, tid \in ThreadIds :
    RunsPut(rid, aid, tid, "pending", Null, FALSE, "create", 0)
CnRunsSetStatus == \E rid \in RunIds : RunsSetStatus(rid, "success")
CnRunsDelete == \E rid \in RunIds : RunsDelete(rid, NoId)
CnRunsCancel ==
  \E tid \in ThreadIds \cup {NoId}, ids \in CancelLists, a \in CancelAction \cup {Null} :
    RunsCancel(tid, ids, a)
CnStart == PickerStart(1)
CnResume == PickerResume(1)
CnClose == PickerClose(1)
CnTick == Tick(MaxTime)

NextCancel ==
  \/ CnAssistPut \/ CnRunsPut \/ CnRunsSetStatus \/ CnRunsDelete \/ CnRunsCancel
  \/ CnStart \/ CnResume \/ CnClose \/ CnTick

SpecCancel == Init /\ [][NextCancel]_vars

\* ---- the picker: runs are created, finished, cancelled and deleted while
\* ---- several Runs.next() generators are open
PkAssistPut == \E aid \in AssistantIds : AssistantsPut(aid, "g1", "c1", EmptyMeta, Null, "raise")
PkRunsPut ==
  \E rid \in FreshRunIds, aid \in AssistantIds, tid \in ThreadIds, after \in 0..MaxAfter :
    RunsPut(rid, aid, tid, "pending", Null, FALSE, "create", after)
PkRunsSetStatus == \E rid \in RunIds, st \in {"success"} : RunsSetStatus(rid, st)
PkRunsCancel ==
  \E rid \in RunIds, a \in CancelAction : RunsCancel(NoId, <<rid>>, a)
PkRunsDelete == \E rid \in RunIds : RunsDelete(rid, NoId)
PkThreadsDelete == \E tid \in ThreadIds : ThreadsDelete(tid)
PkStart == \E p \in PickerIds : PickerStart(p)
PkResume == \E p \in PickerIds : PickerResume(p)
PkClose == \E p \in PickerIds : PickerClose(p)
PkTick == Tick(MaxTime)

NextPicker ==
  \/ PkAssistPut \/ PkRunsPut \/ PkRunsSetStatus \/ PkRunsCancel \/ PkRunsDelete
  \/ PkThreadsDelete \/ PkStart \/ PkResume \/ PkClose \/ PkTick

SpecPicker == Init /\ [][NextPicker]_vars

\* ---- run creation: Runs.put with every combination of its options, on
\* ---- threads in every status, while runs start and finish
PtAssistPut ==
  \E aid \in AssistantIds : AssistantsPut(aid, "g1", "c1", EmptyMeta, Null, "raise")
PtAssistPatch == \E aid \in AssistantIds : AssistantsPatch(aid, "g2", "c2", EmptyMeta, Null)
PtThreadsPut == \E tid \in ThreadIds : ThreadsPut(tid, EmptyThreadMeta, "raise")
PtThreadsSetStatus ==
  \E tid \in ThreadIds, exc \in BOOLEAN,
     cp \in {NoCheckpoint, [given |-> TRUE, hasNext |-> TRUE, values |-> "v1"]} :
    ThreadsSetStatus(tid, cp, exc)
PtRunsPut ==
  \E rid \in FreshRunIds, aid \in AssistantIds, tid \in ThreadIds \cup {NoId},
     cfg \in {Null, "c3"}, prevent \in BOOLEAN, ine \in {"create", "reject"} :
    RunsPut(rid, aid, tid, "pending", cfg, prevent, ine, 0)
PtRunsSetStatus == \E rid \in RunIds, st \in {"running", "success"} : RunsSetStatus(rid, st)

NextPut ==
  \/ PtAssistPut \/ PtAssistPatch \/ PtThreadsPut \/ PtThreadsSetStatus
  \/ PtRunsPut \/ PtRunsSetStatus

SpecPut == Init /\ [][NextPut]_vars

\* ---- multitask reject: every run is launched with
\* ---- preventInsertInInflight, the executor moves runs to running and on
RjAssistPut ==
  \E aid \in AssistantIds : AssistantsPut(aid, "g1", "c1", EmptyMeta, Null, "raise")
RjRunsPut ==
  \E rid \in FreshRunIds, aid \in AssistantIds, tid \in ThreadIds, after \in 0..MaxAfter :
    RunsPut(rid, aid, tid, "pending", Null, TRUE, "create", after)
RjRunsSetStatus ==
  \E rid \in RunIds, st \in {"running", "success", "error"} : RunsSetStatus(rid, st)
RjThreadsSetStatus ==
  \E tid \in ThreadIds, exc \in BOOLEAN : ThreadsSetStatus(tid, NoCheckpoint, exc)
RjTick == Tick(MaxTime)

NextReject == RjAssistPut \/ RjRunsPut \/ RjRunsSetStatus \/ RjThreadsSetStatus \/ RjTick

SpecReject == Init /\ [][NextReject]_vars

\* ---- thread state: threads are created with and without a graph id, given
\* ---- a status, patched and written to by Threads.State.post and batch calls
StThreadMetas == {EmptyThreadMeta, [graph_id |-> "g1", assistant_id |-> NoId]}
StCheckpoints == {NoCheckpoint, [given |-> TRUE, hasNext |-> FALSE, values |-> "v1"]}
StThreadsPut == \E tid \in ThreadIds, md \in StThreadMetas : ThreadsPut(tid, md, "raise")
StThreadsPatch == \E tid \in ThreadIds : ThreadsPatch(tid, [graph_id |-> "g1", assistant_id |-> NoId])
StThreadsSetStatus ==
  \E tid \in ThreadIds, cp \in StCheckpoints : ThreadsSetStatus(tid, cp, FALSE)
StPostStart == \E o \in PostIds, kind \in {"post", "batch"}, tid \in ThreadIds : PostStart(o, kind, tid)
StPostUpdate == \E o \in PostIds, v \in GraphValues : PostUpdate(o, v)
StPostGet == \E o \in PostIds : PostGet(o)
StPostWrite == \E o \in PostIds : PostWrite(o)

NextState ==
  \/ StThreadsPut \/ StThreadsPatch \/ StThreadsSetStatus
  \/ StPostStart \/ StPostUpdate \/ StPostGet \/ StPostWrite

SpecState == Init /\ [][NextState]_vars

\* ---- joins: the run QRun is created, picked, finished, published to and
\* ---- joined by subscribers whose cancel tokens may fire
JoinCalls == {[topic |-> "values", data |-> "v1"], [topic |-> "control", data |-> "done"]}
JnAssistPut == \E aid \in AssistantIds : AssistantsPut(aid, "g1", "c1", EmptyMeta, Null, "raise")
JnRunsPut ==
  \E rid \in FreshRunIds \cap {QRun}, aid \in AssistantIds :
    RunsPut(rid, aid, 1, "pending", Null, FALSE, "create", 0)
JnRunsSetStatus == RunsSetStatus(QRun, "success")
JnStart == PickerStart(1)
JnTick == Tick(1)
JnPublish == \E call \in JoinCalls : StreamPublish(call.topic, call.data)
\* the first subscriber joins with any arguments and a cancel token, the others
\* as Runs.wait does: no options, so no token that could fire
JnJoin ==
  \/ \E tid \in ThreadIds \cup {NoId}, ignore404 \in BOOLEAN : JoinStart(1, tid, ignore404)
  \/ \E s \in SubIds \ {1} : JoinStart(s, 1, FALSE)
JnNext == \E s \in SubIds : JoinNext(s)
JnTake == \E s \in SubIds : JoinTake(s)
JnTimeout == \E s \in SubIds : JoinTimeout(s)
JnSignalAbort == JoinSignalAbort(1)
JnExit == \E s \in SubIds : JoinExit(s)

NextJoin ==
  \/ JnAssistPut \/ JnRunsPut \/ JnRunsSetStatus \/ JnStart \/ JnTick
  \/ JnPublish \/ JnJoin \/ JnNext \/ JnTake \/ JnTimeout \/ JnSignalAbort \/ JnExit

SpecJoin == Init /\ [][NextJoin]_vars

\* ---- one stream: the run QRun is created and joined by one subscriber while
\* ---- it is pending and unpicked, then picked and executed
DoneCall == [topic |-> "control", data |-> "done"]
\* the chunk the executor publishes next: the metadata event, then stream chunks
NextChunk == IF published = <<>> THEN [topic |-> "metadata", data |-> "v1"]
             ELSE [topic |-> "values", data |-> "v1"]
\* the executor has been handed QRun by the picker
ExecutorHolds == pickers[1].pc = "held" /\ pickers[1].list[pickers[1].idx].run_id = QRun
\* step 1 of the executor: the run becomes running
ExRunning ==
  /\ ExecutorHolds
  /\ RunsGet(runs, QRun, NoId).status = "pending"
  /\ RunsSetStatus(QRun, "running")
\* steps 1 and 3: the metadata event and every chunk of the graph are published
ExEmit ==
  /\ RunsGet(runs, QRun, NoId).status = "running"
  /\ Len(published) < MaxMsgs - 1
  /\ StreamPublish(NextChunk.topic, NextChunk.data)
\* step 4: the graph has completed, the run becomes success
ExSuccess ==
  /\ RunsGet(runs, QRun, NoId).status = "running"
  /\ RunsSetStatus(QRun, "success")
\* step 4: control:done is published last
ExDone ==
  /\ RunsGet(runs, QRun, NoId).status = "success"
  /\ DoneCall \notin Range(published)
  /\ StreamPublish(DoneCall.topic, DoneCall.data)

SmAssistPut == \E aid \in AssistantIds : AssistantsPut(aid, "g1", "c1", EmptyMeta, Null, "raise")
SmRunsPut ==
  \E rid \in FreshRunIds \cap {QRun}, aid \in AssistantIds :
    RunsPut(rid, aid, 1, "pending", Null, FALSE, "create", 0)
SmTick == Tick(1)
SmStart == PickerStart(1)
\* the only subscriber joins the pending run before a picker has taken it
SmJoin ==
  /\ RunsGet(runs, QRun, NoId).status = "pending"
  /\ pickers[1].pc = "idle"
  /\ \E tid \in {1, NoId}, ignore404 \in BOOLEAN : JoinStart(1, tid, ignore404)
SmNext == JoinNext(1)
SmTake == JoinTake(1)
SmTimeout == JoinTimeout(1)
SmExit == JoinExit(1)

NextStream ==
  \/ SmAssistPut \/ SmRunsPut \/ SmTick \/ SmStart \/ SmJoin
  \/ SmNext \/ SmTake \/ SmTimeout \/ SmExit
  \/ ExRunning \/ ExEmit \/ ExSuccess \/ ExDone

SpecStream == Init /\ [][NextStream]_vars

\* ---- ties: runs get their uuid4 ids in any order, so the order of the ids
\* ---- need not be the order of insertion; one Runs.next() generator is open
TbAssistPut == \E aid \in AssistantIds : AssistantsPut(aid, "g1", "c1", EmptyMeta, Null, "raise")
TbRunsPut ==
  \E rid \in RunIds \ usedRunIds, aid \in AssistantIds, tid \in ThreadIds, after \in 0..MaxAfter :
    RunsPut(rid, aid, tid, "pending", Null, FALSE, "create", after)
TbStart == PickerStart(1)
TbResume == PickerResume(1)
TbClose == PickerClose(1)
TbTick == Tick(MaxTime)

NextTie == TbAssistPut \/ TbRunsPut \/ TbStart \/ TbResume \/ TbClose \/ TbTick

SpecTie == Init /\ [][NextTie]_vars

\* ---- the persistence lock: runs are created and finished, and cancelled and
\* ---- deleted by calls that wait for the lock; every other operation is one
\* ---- callback without an await, let in when the lock is free
LkAssistPut ==
  LockFree /\ \E aid \in AssistantIds : AssistantsPut(aid, "g1", "c1", EmptyMeta, Null, "raise")
LkRunsPut ==
  /\ LockFree
  /\ \E rid \in FreshRunIds, aid \in AssistantIds :
       RunsPut(rid, aid, 1, "pending", Null, FALSE, "create", 0)
LkRunsSetStatus == LockFree /\ \E rid \in RunIds : RunsSetStatus(rid, "success")
LkCancelCall ==
  \E c \in CallIds, ids \in CancelLists, a \in CancelAction \cup {Null} :
    CancelCall(c, NoId, ids, a)
LkCancelEnter == \E c \in CallIds : CancelEnter(c)
LkCancelReturn == \E c \in CallIds : CancelReturn(c)
LkDeleteCall == \E rid \in RunIds : DeleteCall(rid, NoId)
LkDeleteEnter == \E d \in deletes : DeleteEnter(d)

NextLock ==
  \/ LkAssistPut \/ LkRunsPut \/ LkRunsSetStatus
  \/ LkCancelCall \/ LkCancelEnter \/ LkCancelReturn \/ LkDeleteCall \/ LkDeleteEnter

\* the event loop runs every continuation that is ready: a callback that can
\* be let in is let in, a settled Promise.all resumes its call
DeleteRequests == {DeleteRequest(p, r, NoId) : p \in CallIds \cup {NoId}, r \in RunIds}
FairLock ==
  /\ Init /\ [][NextLock]_vars
  /\ \A c \in CallIds : WF_vars(CancelEnter(c)) /\ WF_vars(CancelReturn(c))
  /\ \A d \in DeleteRequests : WF_vars(DeleteEnter(d))

\* ------------------------------------------------------------------ SpecDev
\* the dev command: the launchServer call at startup and one per watcher event,
\* the awaits of each call interleaved, and the exit handler
DvCall == \E l \in LaunchIds : LaunchCall(l)
DvPrepared == \E l \in LaunchIds : LaunchPrepared(l)
DvSpawned == \E l \in LaunchIds : LaunchSpawned(l)
DvExit == ProcessExit

NextDev == DvCall \/ DvPrepared \/ DvSpawned \/ DvExit

SpecDev == Init /\ [][NextDev]_vars

\* ------------------------------------------------------------------ properties
\* the run a picker is suspended on
HeldRun(p) == pickers[p].list[pickers[p].idx].run_id
PositionIn(seq, x) == CHOOSE i \in 1..Len(seq) : seq[i] = x

\* C1: within one iteration of Runs.next(), of two runs that were pending and
\* due when the iteration began and that the loop found unlocked and on an
\* existing thread, the one with the smaller created_at is yielded first.
C1_PickerFIFO ==
  \A p \in PickerIds :
    LET q == pickers[p]
    IN \A a, b \in 1..Len(q.list) :
         (/\ q.list[a].created_at < q.list[b].created_at
          /\ q.list[b].run_id \in Range(q.yielded))
         => \/ q.list[a].run_id \in q.skipped
            \/ /\ q.list[a].run_id \in Range(q.yielded)
               /\ PositionIn(q.yielded, q.list[a].run_id)
                    < PositionIn(q.yielded, q.list[b].run_id)

\* an iteration has yielded two runs, and the one inserted into the store later
\* (the larger run id) came first
C1_Witness ==
  \E p \in PickerIds :
    /\ Len(pickers[p].yielded) = 2
    /\ pickers[p].yielded[1] > pickers[p].yielded[2]
    /\ pickers[p].list[1].created_at < pickers[p].list[2].created_at

\* C7: a run is held by at most one picker iteration, and exactly the held
\* runs have a cancellation handle: lock is never called on a locked run.
C7_AtMostOneLock ==
  \A r \in RunIds :
    Cardinality({p \in PickerIds : pickers[p].pc = "held" /\ HeldRun(p) = r})
      = IF control[r] # Null THEN 1 ELSE 0

\* two generators are suspended at once, one of them having passed over the run
\* the other holds
C7_Witness ==
  \E p, q \in PickerIds :
    /\ p # q
    /\ pickers[p].pc = "held" /\ pickers[q].pc = "held"
    /\ HeldRun(p) \in pickers[q].skipped


\* the messages the gets of all subscribers returned, as a bag of counts
Deliveries(m) ==
  LET Count(seq) == Cardinality({i \in 1..Len(seq) : seq[i] = m})
      RECURSIVE Sum(_)
      Sum(S) == IF S = {} THEN 0
                ELSE LET x == CHOOSE y \in S : TRUE IN Count(subs[x].got) + Sum(S \ {x})
  IN Sum(SubIds)
NeverCalled(sub) == subs[sub].pc = "idle" /\ subs[sub].res = "none"

\* C2: while a single subscriber uses the queue, the messages its gets returned
\* are a prefix of the pushed messages, in push order.
C2_QueueFIFO ==
  \A sub \in SubIds :
    (\A other \in SubIds \ {sub} : NeverCalled(other))
      => /\ Len(subs[sub].got) <= Len(pushed)
         /\ subs[sub].got = SubSeq(pushed, 1, Len(subs[sub].got))

\* a single subscriber has waited on the empty queue, timed out at least once and
\* has received two messages
C2_Witness ==
  \E sub \in SubIds :
    /\ \A other \in SubIds \ {sub} : NeverCalled(other)
    /\ Len(subs[sub].got) = 2
    /\ subs[sub].res = "timeout"

\* C3: every pushed message is either still buffered or was returned by exactly
\* one get, over all subscribers.
C3_ExactlyOnce ==
  \A m \in Range(pushed) :
    Cardinality({i \in 1..Len(qbuffer) : qbuffer[i] = m}) + Deliveries(m) = 1

\* two subscribers have both received messages
C3_Witness ==
  /\ \A sub \in SubIds : \E i \in 1..Len(subs[sub].got) : subs[sub].got[i] # Undefined
  /\ \E sub \in SubIds : Undefined \in Range(subs[sub].got)

\* C6: every stored assistant with version v >= 1 has an AssistantVersion record
\* with its assistant_id and version v.
C6_VersionRecordExists ==
  \A aid \in DOMAIN assistants :
    assistants[aid].version >= 1 =>
      \E i \in 1..Len(assistant_versions) :
        /\ assistant_versions[i].assistant_id = aid
        /\ assistant_versions[i].version = assistants[aid].version

\* an assistant patched to version 2 or more and then set back to version 1
C6_Witness ==
  \E aid \in DOMAIN assistants :
    /\ assistants[aid].version = 1
    /\ \E v \in AssistantVersionsOf(aid) : v >= 2

\* C4: in every state, Threads.setStatus on an existing thread leaves the
\* thread with the status of the rule: error if an exception is given, else
\* interrupted if the checkpoint has a non-empty next, else busy if a run of
\* the thread is pending, else idle.
C4_SetStatusRule ==
  \A tid \in DOMAIN threads, cp \in Checkpoints \cup {NoCheckpoint}, exc \in BOOLEAN :
    SetStatusResult(tid, cp, exc).status =
      IF exc THEN "error"
      ELSE IF cp.given /\ cp.hasNext THEN "interrupted"
      ELSE IF \E r \in Range(runs) : r.thread_id = tid /\ r.status = "pending" THEN "busy"
      ELSE "idle"

\* setStatus has stored a checkpoint without next on a thread whose run is still
\* pending (busy), and on another thread whose run has finished (idle)
C4_Witness ==
  \E t1, t2 \in DOMAIN threads :
    /\ threads[t1].values # Null /\ threads[t1].status = "busy"
    /\ \E r \in Range(runs) : r.thread_id = t1 /\ r.status = "pending"
    /\ threads[t2].values # Null /\ threads[t2].status = "idle"
    /\ \E r \in Range(runs) : r.thread_id = t2 /\ r.status = "success"

\* C5: every stored run names an existing thread and an existing assistant;
\* after Threads.delete or Assistants.delete no run names the deleted one.
C5_ReferentialIntegrity ==
  \A r \in Range(runs) :
    /\ r.thread_id \in DOMAIN threads
    /\ r.assistant_id \in DOMAIN assistants

\* both run ids were created, the thread of one of them is gone together with
\* its run, and the run of the other thread is still stored
C5_Witness ==
  /\ usedRunIds = RunIds
  /\ Len(runs) = 1
  /\ Cardinality(DOMAIN threads) = 1
  /\ retry_counter = [r \in RunIds |-> 0]
  /\ runs[1].status = "pending"

\* the run with id rid is in rs / its record
StoredIn(rs, rid) == \E r \in Range(rs) : r.run_id = rid
RecordIn(rs, rid) == CHOOSE r \in Range(rs) : r.run_id = rid
\* Runs.cancel(threadId, ...) does not pass over the stored run rid
Found(threadId, rid) ==
  StoredIn(runs, rid) /\ (threadId = NoId \/ RecordIn(runs, rid).thread_id = threadId)

\* C8: in every state, Runs.cancel on a found pending run that has a
\* cancellation handle, or with an action other than rollback, keeps the run
\* and leaves it interrupted with updated_at set to the time of the call.
C8_CancelInterrupts ==
  \A tid \in ThreadIds \cup {NoId}, ids \in CancelLists, a \in CancelAction \cup {Null} :
    \A rid \in Range(ids) :
      (/\ Found(tid, rid)
       /\ RecordIn(runs, rid).status = "pending"
       /\ (control[rid] # Null \/ a # "rollback"))
      => LET after == CancelResult(runs, control, tid, ids, a, now).runs
         IN /\ StoredIn(after, rid)
            /\ RecordIn(after, rid).status = "interrupted"
            /\ RecordIn(after, rid).updated_at = now
            /\ RecordIn(after, rid).updated_at >= RecordIn(runs, rid).updated_at

\* a run that a picker holds was cancelled after the clock advanced: it is
\* stored as interrupted and its handle is aborted
C8_Witness ==
  \E r \in Range(runs) :
    /\ r.status = "interrupted"
    /\ r.updated_at > r.created_at
    /\ control[r.run_id] \in {"interrupt", "rollback"}

\* C9: in every state where R1 is pending and has no cancellation handle and
\* R2 is pending on the same thread, Runs.cancel on R1 with action rollback
\* removes R1 from the store and leaves R2 stored, pending and unchanged.
C9_RollbackUnscheduled ==
  \A tid \in ThreadIds \cup {NoId}, r1, r2 \in RunIds :
    (/\ r1 # r2
     /\ Found(tid, r1) /\ StoredIn(runs, r2)
     /\ RecordIn(runs, r1).status = "pending" /\ control[r1] = Null
     /\ RecordIn(runs, r2).status = "pending"
     /\ RecordIn(runs, r2).thread_id = RecordIn(runs, r1).thread_id)
    => LET after == CancelResult(runs, control, tid, <<r1>>, "rollback", now).runs
       IN /\ ~StoredIn(after, r1)
          /\ StoredIn(after, r2)
          /\ RecordIn(after, r2) = RecordIn(runs, r2)
          /\ RecordIn(after, r2).status = "pending"

\* the first run was never handed out and is gone while the second run, created
\* on a thread that was never deleted, is pending
C9_Witness ==
  /\ usedRunIds = RunIds
  /\ Len(runs) = 1
  /\ runs[1].run_id = 2 /\ runs[1].status = "pending"
  /\ retry_counter[1] = 0 /\ control[1] = Null

\* C10: Runs.cancel on a found run that is not pending returns without failure
\* and with the run store as it was; and a second Runs.cancel on the same run,
\* right after a first one, changes no run record.
C10_IdempotentCancel ==
  \A tid \in ThreadIds \cup {NoId}, rid \in RunIds, a, b \in CancelAction \cup {Null} :
    LET first == CancelResult(runs, control, tid, <<rid>>, a, now)
        second == CancelResult(first.runs, first.control, tid, <<rid>>, b, now)
    IN /\ (Found(tid, rid) /\ RecordIn(runs, rid).status # "pending")
            => first.runs = runs /\ first.outcome = "ok"
       /\ second.runs = first.runs

\* a run was cancelled while a picker held it, and a finished run is stored
\* next to it
C10_Witness ==
  /\ \E r \in Range(runs) : r.status = "interrupted" /\ control[r.run_id] = "interrupt"
  /\ \E r \in Range(runs) : r.status = "success"

\* C11: in every state, Runs.cancel(threadId, runIds) ends with 404 exactly
\* when one of the listed runs is not stored or is on another thread than the
\* one given; otherwise it returns without error.
C11_CancelNotFound ==
  \A tid \in ThreadIds \cup {NoId}, ids \in CancelLists, a \in CancelAction \cup {Null} :
    (CancelResult(runs, control, tid, ids, a, now).outcome = "404")
      <=> (\E rid \in Range(ids) : ~Found(tid, rid))

\* two runs are stored on different threads, one of them interrupted by a
\* cancel: a call listing both under either thread id finds only one
C11_Witness ==
  \E r1, r2 \in Range(runs) :
    /\ r1.thread_id # r2.thread_id
    /\ r1.status = "interrupted"
    /\ r2.status = "pending"

\* the ids of the pending runs of a thread
PendingOn(tid) == {r.run_id : r \in {x \in Range(runs) : x.thread_id = tid /\ x.status = "pending"}}
\* a run id that is not in use (the ids of the model and one more)
UnusedRunIds == (1..(MaxRuns + 1)) \ usedRunIds

\* C12: in every state, Runs.put with preventInsertInInflight on a thread that
\* has a pending run leaves the stored runs as they are and returns exactly the
\* pending runs of the thread, the new run id not among them.
C12_PreventInsert ==
  \A tid \in DOMAIN threads, aid \in DOMAIN assistants, rid \in UnusedRunIds,
     cfg \in {Null, "c3"}, ine \in {"create", "reject"} :
    PendingOn(tid) # {}
      => LET res == RunsPutResult(rid, aid, tid, tid, "pending", cfg, TRUE, ine, 0)
         IN /\ res.outcome = "ok"
            /\ res.runs = runs
            /\ Range(res.returned) = PendingOn(tid)
            /\ Len(res.returned) = Cardinality(PendingOn(tid))
            /\ rid \notin Range(res.returned)

\* a thread holds two pending runs, both inserted by puts that did not ask to
\* prevent the insert
C12_Witness ==
  \E tid \in DOMAIN threads : Cardinality(PendingOn(tid)) = 2

\* C13: when every run is launched with preventInsertInInflight, at most one
\* run of a thread has status pending or running.
C13_RejectOneActive ==
  \A tid \in ThreadIds :
    Cardinality({r \in Range(runs) :
                   r.thread_id = tid /\ r.status \in {"pending", "running"}}) <= 1

\* the calls of Runs.put for which no thread exists: <<threadId, newId>> with
\* a thread id that is not stored, or no thread id and the uuid4() drawn
NoThreadCalls ==
  {<<t, t>> : t \in ThreadIds \ DOMAIN threads}
    \cup {<<NoId, n>> : n \in ThreadIds \ DOMAIN threads}
PutInputs == [cfg : {Null, "c3"}, prevent : BOOLEAN, ine : {"create", "reject"}]
\* Runs.put has created thread tid for run rid of assistant aid
CreatedFor(res, tid, rid, aid) ==
  /\ DOMAIN res.threads = DOMAIN threads \cup {tid}
  /\ res.threads[tid].status = "busy"
  /\ res.threads[tid].metadata =
       [graph_id |-> assistants[aid].graph_id, assistant_id |-> aid]
  /\ StoredIn(res.runs, rid) /\ RecordIn(res.runs, rid).thread_id = tid
\* Runs.put has created no thread and inserted no run
NothingPut(res) == res.threads = threads /\ res.runs = runs /\ res.returned = <<>>

\* C14 as stated: when no thread exists for the run, Runs.put creates the
\* thread (busy, metadata of the assistant) if ifNotExists is "create", and
\* creates no thread and inserts no run if it is "reject".
C14_AsStated ==
  \A aid \in DOMAIN assistants, c \in NoThreadCalls, rid \in UnusedRunIds, opt \in PutInputs :
    LET res == RunsPutResult(rid, aid, c[1], c[2], "pending", opt.cfg, opt.prevent, opt.ine, 0)
    IN IF opt.ine = "create" THEN CreatedFor(res, c[2], rid, aid) ELSE NothingPut(res)

\* C14 as amended: when a thread id is given and no such thread exists,
\* Runs.put creates the thread (busy, metadata of the assistant) and inserts
\* the run if ifNotExists is "create", and creates no thread and inserts no
\* run if it is "reject"; when no thread id is given it creates a thread under
\* a fresh id and inserts the run whatever ifNotExists is.
C14_ThreadResolution ==
  \A aid \in DOMAIN assistants, c \in NoThreadCalls, rid \in UnusedRunIds, opt \in PutInputs :
    LET res == RunsPutResult(rid, aid, c[1], c[2], "pending", opt.cfg, opt.prevent, opt.ine, 0)
    IN IF c[1] = NoId \/ opt.ine = "create"
       THEN CreatedFor(res, c[2], rid, aid)
       ELSE NothingPut(res)

\* Runs.put has created a thread for its run while another thread id is still
\* free
C14_Witness ==
  /\ \E r \in Range(runs) :
       /\ r.thread_id \in DOMAIN threads
       /\ threads[r.thread_id].status = "busy"
       /\ threads[r.thread_id].metadata.assistant_id = r.assistant_id
  /\ ThreadIds \ DOMAIN threads # {}

\* every call of Runs.put: <<threadId, newId>> with a thread id, or no thread
\* id and the uuid4() drawn
PutCalls ==
  {<<t, t>> : t \in ThreadIds} \cup {<<NoId, n>> : n \in ThreadIds \ DOMAIN threads}

\* C15: in every state, when Runs.put inserts its run, the thread of the run
\* exists afterwards and is busy, whatever it was before; if it was busy
\* before, its metadata and config are what they were.
C15_BusyAfterPut ==
  \A aid \in DOMAIN assistants, c \in PutCalls, rid \in UnusedRunIds, opt \in PutInputs :
    LET res == RunsPutResult(rid, aid, c[1], c[2], "pending", opt.cfg, opt.prevent, opt.ine, 0)
        tid == c[2]
    IN StoredIn(res.runs, rid)
         => /\ RecordIn(res.runs, rid).thread_id = tid
            /\ tid \in DOMAIN res.threads
            /\ res.threads[tid].status = "busy"
            /\ (tid \in DOMAIN threads /\ threads[tid].status = "busy")
                 => /\ res.threads[tid].metadata = threads[tid].metadata
                    /\ res.threads[tid].config = threads[tid].config

\* a thread that a checkpoint had left interrupted or in error is busy again:
\* its first run has finished and a second run was put on it
C15_Witness ==
  \E tid \in DOMAIN threads :
    /\ threads[tid].status = "busy" /\ threads[tid].values # Null
    /\ \E r1, r2 \in Range(runs) :
         /\ r1.thread_id = tid /\ r1.status = "success"
         /\ r2.thread_id = tid /\ r2.status = "pending"

\* C16: a run put with afterSeconds = d has created_at = time of the put + d;
\* no run listed by a Runs.next() iteration has created_at after the current
\* time; and every pending run with created_at <= now, created_at = now
\* included, is collected by a Runs.next() that starts now.
C16_DelayedScheduling ==
  /\ \A aid \in DOMAIN assistants, c \in PutCalls, rid \in UnusedRunIds, d \in 0..MaxAfter :
       LET res == RunsPutResult(rid, aid, c[1], c[2], "pending", Null, FALSE, "create", d)
       IN RecordIn(res.runs, rid).created_at = now + d
  /\ \A p \in PickerIds : \A i \in 1..Len(pickers[p].list) :
       pickers[p].list[i].created_at <= now
  /\ \A r \in Range(runs) :
       (r.status = "pending" /\ r.created_at <= now) => r \in Range(PendingRuns)

\* picker p yields run r in this step
Yields(p, r) ==
  /\ pickers'[p] # pickers[p]
  /\ pickers'[p].pc = "held"
  /\ pickers'[p].list[pickers'[p].idx].run_id = r

\* C17: the retry counter of a run starts at 0 and changes only in a step in
\* which a picker yields the run, where it grows by one and is the attempt
\* handed out; and every yield of a run is such a step.  So the counter is the
\* number of yields of the run, and the attempts are 1, 2, ...
C17_RetryCounter ==
  [][\A r \in RunIds :
       /\ (retry_counter'[r] # retry_counter[r]) => \E p \in PickerIds : Yields(p, r)
       /\ \A p \in PickerIds :
            Yields(p, r) => /\ retry_counter'[r] = retry_counter[r] + 1
                            /\ pickers'[p].attempt = retry_counter'[r]]_vars

\* a run was handed out twice, the second time as attempt 2
C17_Witness ==
  \E p \in PickerIds :
    /\ pickers[p].pc = "held"
    /\ pickers[p].attempt = 2
    /\ retry_counter[HeldRun(p)] = 2

\* the done sentinel as a publish call, and the items of the queue it became
DoneItems == {i \in 1..Len(published) : published[i] = DoneCall}
\* the payload event a join makes of the done message
DoneEvent == [event |-> <<"control">>, data |-> "done"]

\* C18: a join that has dequeued the done sentinel published for its run is
\* over (it is past its loop and yields nothing more) and has not yielded the
\* done message as a payload event.
C18_JoinEndsOnDone ==
  \A s \in SubIds :
    (\E k \in 1..Len(subs[s].got) : subs[s].got[k] \in DoneItems) =>
      /\ joins[s].pc \in {"exit", "done"}
      /\ DoneEvent \notin Range(joins[s].events)

\* STORE.runs[QRun] in rs, whatever its thread
StoredRun(rs) == RunsGet(rs, QRun, NoId)
\* the run is stored on the thread the join was given, or the join was given none
OnThreadOf(j, rs) ==
  /\ StoredRun(rs) # NoRun
  /\ j.thread_id = NoId \/ StoredRun(rs).thread_id = j.thread_id
\* the get of join s waits, so that its timer can fire now
CanTimeOut(s) == joins[s].pc = "get" /\ subs[s].pc = "waiting"
\* what the join of s does when the timer fires now
OnTimeout(s) == JoinOnError(RunsGet(runs, QRun, joins[s].thread_id), joins[s].ignore404)
\* the join is over, at once or after the one event it yields first
EndsWith(res, events) == res.pc \in {"exit", "break"} /\ res.events = events

\* C19 as stated: on a timeout the join ends if the stored run is no longer
\* pending, ends after the one error event (none with ignore404) if no run is
\* stored, and goes on if the stored run is pending.
C19_AsStated ==
  \A s \in SubIds :
    CanTimeOut(s) =>
      LET run == StoredRun(runs)
          res == OnTimeout(s)
          notFound == IF joins[s].ignore404 THEN <<>> ELSE <<ErrorEvent>>
      IN /\ (run # NoRun /\ run.status # "pending") => res.pc \in {"exit", "break"}
         /\ run = NoRun => EndsWith(res, notFound)
         /\ (run # NoRun /\ run.status = "pending") => res = [pc |-> "loop", events |-> <<>>]

\* C19: on a timeout the join looks the run up on its thread.  It ends without
\* an event if that run is no longer pending; it ends after the one error event
\* "Run not found" (no event with ignore404) if no run is stored or the run is
\* on another thread; it goes on, yielding nothing, if that run is pending.  A
\* join that stopped at the error event yielded it last.
C19_JoinOnTimeout ==
  \A s \in SubIds :
    /\ CanTimeOut(s) =>
         LET run == StoredRun(runs)
             res == OnTimeout(s)
             notFound == IF joins[s].ignore404 THEN <<>> ELSE <<ErrorEvent>>
         IN /\ (OnThreadOf(joins[s], runs) /\ run.status # "pending") => EndsWith(res, <<>>)
            /\ ~OnThreadOf(joins[s], runs) => EndsWith(res, notFound)
            /\ (OnThreadOf(joins[s], runs) /\ run.status = "pending") =>
                 res = [pc |-> "loop", events |-> <<>>]
    /\ joins[s].pc = "break" =>
         /\ ~joins[s].ignore404
         /\ joins[s].events # <<>>
         /\ joins[s].events[Len(joins[s].events)] = ErrorEvent

\* a timeout has left a join running on its pending run, and another timeout
\* has ended a join on the error event
C19_Witness ==
  /\ \E s \in SubIds :
       /\ subs[s].res = "timeout"
       /\ joins[s].pc = "loop"
       /\ joins[s].events = <<>>
       /\ OnThreadOf(joins[s], runs)
       /\ StoredRun(runs).status = "pending"
  /\ \E s \in SubIds :
       /\ subs[s].res = "timeout"
       /\ joins[s].pc = "break"
       /\ StoredRun(runs) # NoRun

\* join s runs the statement after its loop in this step
Exits(s) == joins[s].pc = "exit" /\ joins'[s].pc = "done"
\* the token of join s has fired by the end of this step
Fired(s) == joins'[s].signal = "aborted"

\* C20 as stated: once its token has fired a join yields nothing more; when it
\* leaves with a fired token and a thread id, a stored run that is pending
\* becomes interrupted and a live handle of the run fires with reason
\* interrupt; when it leaves without a thread id the runs and the handles are
\* unchanged.
C20_AsStated ==
  [][\A s \in SubIds :
       /\ joins[s].signal = "aborted" => joins'[s].events = joins[s].events
       /\ (Exits(s) /\ Fired(s) /\ joins[s].thread_id # NoId) =>
            /\ (StoredRun(runs) # NoRun /\ StoredRun(runs).status = "pending") =>
                 StoredRun(runs').status = "interrupted"
            /\ (StoredRun(runs) # NoRun /\ control[QRun] = "live") =>
                 control'[QRun] = "interrupt"
       /\ (Exits(s) /\ joins[s].thread_id = NoId) =>
            /\ runs' = runs
            /\ control' = control
            /\ joins'[s].cancel = Null]_vars

\* C20: once its token has fired a join yields nothing more.  When it leaves
\* with a fired token and a thread id, Runs.cancel is called with interrupt: a
\* run stored on that thread becomes interrupted if it is pending and its live
\* handle fires with reason interrupt, and the call succeeds; with no run
\* stored, or the run on another thread, the call fails with "Run not found"
\* and nothing changes.  When it leaves without a thread id, or with a token
\* that has not fired, nothing is cancelled and nothing changes.
C20_CancelOnDisconnect ==
  [][\A s \in SubIds :
       /\ joins[s].signal = "aborted" => joins'[s].events = joins[s].events
       /\ (Exits(s) /\ Fired(s) /\ joins[s].thread_id # NoId /\ OnThreadOf(joins[s], runs)) =>
            /\ StoredRun(runs).status = "pending" =>
                 StoredRun(runs').status = "interrupted"
            /\ StoredRun(runs).status # "pending" => runs' = runs
            /\ control[QRun] = "live" => control'[QRun] = "interrupt"
            /\ joins'[s].cancel = "ok"
       /\ (Exits(s) /\ Fired(s) /\ joins[s].thread_id # NoId /\ ~OnThreadOf(joins[s], runs)) =>
            /\ runs' = runs
            /\ control' = control
            /\ joins'[s].cancel = "404"
       /\ (Exits(s) /\ (joins[s].thread_id = NoId \/ ~Fired(s))) =>
            /\ runs' = runs
            /\ control' = control
            /\ joins'[s].cancel = Null]_vars

\* a join whose token fired while it waited has left with a thread id and has
\* interrupted its pending run, whose handle fired
C20_Witness ==
  \E s \in SubIds :
    /\ joins[s].pc = "done"
    /\ joins[s].signal = "aborted"
    /\ subs[s].res = "abort"
    /\ joins[s].cancel = "ok"
    /\ StoredRun(runs).status = "interrupted"
    /\ control[QRun] = "interrupt"

\* the waiting get of sub fails in this step
GetFails(sub) == subs[sub].pc = "waiting" /\ subs'[sub].pc = "idle"

\* C21: a get that waits on the empty queue ends without a message only with
\* TimeoutError or AbortError; in that step its listener leaves the listeners,
\* the buffer and the messages the subscriber has got are unchanged.  A push
\* while the subscriber is in no get is appended to the buffer and wakes it
\* not; its next get takes the head of a filled buffer at once.
C21_GetFails ==
  [][\A sub \in SubIds :
       /\ GetFails(sub) =>
            /\ subs'[sub].res \in {"timeout", "abort"}
            /\ sub \notin Range(qlisteners')
            /\ qbuffer' = qbuffer
            /\ subs'[sub].got = subs[sub].got
       /\ (subs[sub].pc = "idle" /\ pushed' # pushed) =>
            /\ qbuffer' = Append(qbuffer, pushed'[Len(pushed')])
            /\ subs'[sub] = subs[sub]
       /\ (subs[sub].pc = "idle" /\ subs'[sub] # subs[sub] /\ qbuffer # <<>>) =>
            /\ subs'[sub].pc = "idle"
            /\ subs'[sub].got = Append(subs[sub].got, Head(qbuffer))
            /\ qbuffer' = Tail(qbuffer)]_vars

\* one get has timed out and another was aborted, neither subscriber has got
\* anything, and a message pushed later lies in the buffer
C21_Witness ==
  /\ \E sub \in SubIds : subs[sub] = [pc |-> "idle", res |-> "timeout", got |-> <<>>]
  /\ \E sub \in SubIds : subs[sub] = [pc |-> "idle", res |-> "abort", got |-> <<>>]
  /\ qlisteners = <<>>
  /\ qbuffer # <<>>

\* the arguments of a put on an existing id
AssistantPutInputs ==
  [graph_id : Graphs, config : Configs, metadata : {EmptyMeta, [k \in MetaKeys |-> "m1"]},
   name : {Null, "n1"}]
ThreadPutInputs == {EmptyThreadMeta, [graph_id |-> "g1", assistant_id |-> 1]}

\* C22: in every state, a put on an existing id, whatever its other
\* arguments, fails with 409 under raise and returns the stored record under
\* do_nothing, and leaves the store as it is either way: the records and the
\* version records are unchanged.
C22_PutExisting ==
  /\ \A aid \in DOMAIN assistants : \A opt \in AssistantPutInputs :
       LET raise == AssistantsPutResult(aid, opt.graph_id, opt.config, opt.metadata,
                                        opt.name, "raise")
           nothing == AssistantsPutResult(aid, opt.graph_id, opt.config, opt.metadata,
                                          opt.name, "do_nothing")
       IN /\ raise.outcome = "409"
          /\ raise.assistants = assistants
          /\ raise.assistant_versions = assistant_versions
          /\ nothing.outcome = "ok"
          /\ nothing.returned = <<assistants[aid]>>
          /\ nothing.assistants = assistants
          /\ nothing.assistant_versions = assistant_versions
  /\ \A tid \in DOMAIN threads : \A metadata \in ThreadPutInputs :
       LET raise == ThreadsPutResult(tid, metadata, "raise")
           nothing == ThreadsPutResult(tid, metadata, "do_nothing")
       IN /\ raise.outcome = "409"
          /\ raise.threads = threads
          /\ nothing.outcome = "ok"
          /\ nothing.returned = <<threads[tid]>>
          /\ nothing.threads = threads

\* an assistant that was patched since its put and a thread that has become
\* busy since its put: a second put would be given other values than stored
C22_Witness ==
  /\ \E aid \in DOMAIN assistants :
       /\ assistants[aid].version = 2
       /\ \A opt \in AssistantPutInputs :
            assistants[aid] # NewAssistant(opt.graph_id, opt.config, opt.metadata, opt.name)
  /\ \E tid \in DOMAIN threads :
       /\ threads[tid].status = "busy"
       /\ \A metadata \in ThreadPutInputs : threads[tid] # NewThread(metadata)

\* the version records of assistant aid among avs
VersionsIn(avs, aid) ==
  {avs[i].version : i \in {j \in 1..Len(avs) : avs[j].assistant_id = aid}}

\* C23: a step that creates an assistant leaves it at version 1 with the one
\* version record 1; a step that changes the version records of a stored
\* assistant adds one, numbered max(its versions) + 1, and sets the live
\* version to that; and after every step getVersions lists all versions of
\* the assistant, each greater than the next.
C23_Versioning ==
  [][\A aid \in AssistantIds :
       /\ (aid \notin DOMAIN assistants /\ aid \in DOMAIN assistants') =>
            /\ assistants'[aid].version = 1
            /\ VersionsIn(assistant_versions', aid) = {1}
       /\ (aid \in DOMAIN assistants /\ aid \in DOMAIN assistants'
             /\ VersionsIn(assistant_versions', aid) # VersionsIn(assistant_versions, aid)) =>
            /\ VersionsIn(assistant_versions', aid) =
                 VersionsIn(assistant_versions, aid)
                   \cup {MaxOf(VersionsIn(assistant_versions, aid)) + 1}
            /\ assistants'[aid].version = MaxOf(VersionsIn(assistant_versions, aid)) + 1
       /\ LET listed == GetVersions(assistant_versions', aid, MaxVersion, 0)
          IN /\ {listed[i].version : i \in 1..Len(listed)} = VersionsIn(assistant_versions', aid)
             /\ \A i \in 1..(Len(listed) - 1) : listed[i].version > listed[i + 1].version]_vars

\* after a put and two patches getVersions lists v3, v2, v1
C23_Witness ==
  \E aid \in DOMAIN assistants :
    LET listed == GetVersions(assistant_versions, aid, MaxVersion, 0)
    IN /\ assistants[aid].version = 3
       /\ [i \in 1..Len(listed) |-> listed[i].version] = <<3, 2, 1>>

\* the version record (aid, version), in a sequence: empty if there is none
VersionRecord(aid, version) ==
  SelectSeqBy(assistant_versions,
              {v \in Range(assistant_versions) : v.assistant_id = aid /\ v.version = version})

\* C24: in every state, Assistants.setLatest(id, v) on a stored assistant
\* with a version record (id, v) leaves the live assistant with the version,
\* graph_id, config, metadata and name of that record; for an assistant or a
\* version that does not exist it fails with 404 and leaves the assistants as
\* they are.
C24_SetLatestCopies ==
  \A aid \in AssistantIds : \A version \in 1..MaxVersion :
    LET res == SetLatestResult(aid, version)
        rec == VersionRecord(aid, version)
    IN IF aid \in DOMAIN assistants /\ rec # <<>>
       THEN /\ res.outcome = "ok"
            /\ res.assistants[aid].version = rec[1].version
            /\ res.assistants[aid].graph_id = rec[1].graph_id
            /\ res.assistants[aid].config = rec[1].config
            /\ res.assistants[aid].metadata = rec[1].metadata
            /\ res.assistants[aid].name = rec[1].name
       ELSE /\ res.outcome = "404"
            /\ res.assistants = assistants

\* call o completes in this step: it writes the values it has read
Completes(o) == posts[o].pc = "write" /\ posts'[o].pc = "done"
\* no other call on the thread of o stands between its update and its write
AloneInFlight(o) ==
  \A other \in PostIds \ {o} :
    posts[other].thread_id = posts[o].thread_id => posts[other].pc \notin {"get", "write"}

\* C25: in every state Threads.setStatus leaves the thread with the values of
\* the checkpoint, or without values when no checkpoint is given; and when a
\* post or batch call completes, with no other such call on the thread between
\* its update and its write, the thread is left with the current state values
\* of the graph.
C25_ValuesOfLastOperation ==
  /\ [](\A tid \in DOMAIN threads : \A cp \in Checkpoints \cup {NoCheckpoint} :
          \A exception \in BOOLEAN :
            SetStatusResult(tid, cp, exception).values =
              IF cp.given THEN cp.values ELSE Null)
  /\ [][\A o \in PostIds :
          (Completes(o) /\ AloneInFlight(o) /\ posts[o].thread_id \in DOMAIN threads') =>
            threads'[posts[o].thread_id].values =
              StateGetValues(threads', graph', posts[o].thread_id)]_vars

\* thread tid is stored and its metadata has no graph_id
NoGraphId(tid) == tid \in DOMAIN threads /\ threads[tid].metadata.graph_id = Null

\* C26: for every stored thread without a graph id the check at the head of
\* post and batch gives 400 and State.list is empty whatever its limit; a call
\* that has failed with 400 is over and has never updated the graph; and the
\* step in which a post or batch call starts on such a thread ends the call
\* with 400 and changes neither the threads nor the graph.
C26_NoGraphId ==
  /\ [](/\ \A tid \in ThreadIds :
             NoGraphId(tid) =>
               /\ PostCheck(threads, tid) = "400"
               /\ \A limit \in 0..MaxPosts : StateList(threads, graph, tid, limit) = <<>>
        /\ \A o \in PostIds :
             posts[o].outcome = "400" => posts[o].pc = "done" /\ posts[o].at = 0)
  /\ [][\A o \in PostIds :
          (posts[o].pc = "off" /\ posts'[o].pc # "off" /\ NoGraphId(posts'[o].thread_id)) =>
            /\ posts'[o].pc = "done"
            /\ posts'[o].outcome = "400"
            /\ threads' = threads
            /\ graph' = graph]_vars

\* a post and a batch call have both failed with 400 on a stored thread
\* without a graph id
C26_Witness ==
  \E a, b \in PostIds :
    /\ posts[a].kind = "post" /\ posts[a].outcome = "400"
    /\ posts[b].kind = "batch" /\ posts[b].outcome = "400"
    /\ NoGraphId(posts[a].thread_id)
    /\ NoGraphId(posts[b].thread_id)


\* the event join yields for a published call
EventOf(call) == [event |-> <<call.topic>>, data |-> call.data]

\* C27: a single subscriber that joined the run while it was pending and
\* unpicked has yielded the published events in publish order, and has not
\* stopped while the executor has the run in status running, however many
\* dequeue timeouts pass between two published events
C27_StreamComplete ==
  LET j == joins[1]
  IN j.pc # "off" =>
       /\ Len(j.events) <= Len(published)
       /\ \A i \in 1..Len(j.events) : j.events[i] = EventOf(published[i])
       /\ RunsGet(runs, QRun, NoId).status = "running" => j.pc \notin {"exit", "done"}


\* created_at of run rid in the list a Runs.next() iteration works through
CreatedIn(list, rid) == list[CHOOSE i \in 1..Len(list) : list[i].run_id = rid].created_at

\* C28: of two runs with equal created_at that one iteration of Runs.next()
\* has yielded, the one with the smaller run_id was yielded first, whatever
\* the order in which they were put into the store
C28_TieBreakByRunId ==
  \A p \in PickerIds :
    LET ys == pickers[p].yielded
        list == pickers[p].list
    IN \A i, j \in 1..Len(ys) :
         (i < j /\ CreatedIn(list, ys[i]) = CreatedIn(list, ys[j])) => ys[i] < ys[j]


\* the calls of Runs.cancel: thread id, run ids, action (Null: not given)
CancelInputs == (ThreadIds \cup {NoId}) \X CancelLists \X (CancelAction \cup {Null})
\* Runs.cancel(threadId, runIds, ...) finds run r
CancelFinds(threadId, runIds, r) ==
  /\ r \in Range(runIds)
  /\ HasRun(r)
  /\ threadId = NoId \/ GetRun(r).thread_id = threadId
\* the reason a call with this action gives
ReasonOf(action) == IF action # Null THEN action ELSE "interrupt"

\* C29: Runs.cancel fires the handle of every found run that has one, with the
\* action as reason (interrupt when none is given), whatever the status of
\* the run, also when the call ends with 404; a run without a handle gets none
C29_CancelFiresHandle ==
  \A in \in CancelInputs :
    LET res == CancelResult(runs, control, in[1], in[2], in[3], now)
    IN \A r \in RunIds :
         /\ (CancelFinds(in[1], in[2], r) /\ control[r] = "live")
              => res.control[r] = ReasonOf(in[3])
         /\ control[r] = Null => res.control[r] = Null
\* a run that has finished, is still held by the picker with an unfired handle,
\* and whose handle a cancel with rollback fires
C29_Witness ==
  \E r \in RunIds :
    /\ HasRun(r)
    /\ GetRun(r).status = "success"
    /\ control[r] = "live"
    /\ CancelResult(runs, control, NoId, <<r>>, "rollback", now).control[r] = "rollback"

\* C30: a handle that has been fired keeps its reason under every later
\* Runs.cancel, whatever the action of that call: it does not fire again
C30_SingleShot ==
  \A in \in CancelInputs :
    LET res == CancelResult(runs, control, in[1], in[2], in[3], now)
    IN \A r \in RunIds : control[r] \in CancelAction => res.control[r] = control[r]
\* a handle fired with interrupt, whose run a cancel with rollback finds
C30_Witness ==
  \E r \in RunIds :
    /\ control[r] = "interrupt"
    /\ CancelFinds(NoId, <<r>>, r)
    /\ CancelResult(runs, control, NoId, <<r>>, "rollback", now).outcome = "ok"
    /\ CancelResult(runs, control, NoId, <<r>>, "rollback", now).control[r] = "interrupt"


\* C31: a run is locked from the yield of it on; in the step in which the
\* consumer resumes the generator or closes it (return or throw) the run it was
\* suspended on is unlocked, the run it is suspended on next is locked, and
\* once the iteration has ended a run it yielded is locked only while another
\* iteration is suspended on it
C31_LockRelease ==
  [][\A p \in PickerIds :
       (pickers[p].pc = "held" /\ pickers'[p] # pickers[p]) =>
         /\ control'[HeldRun(p)] = Null
         /\ pickers'[p].pc = "held" =>
              control'[pickers'[p].list[pickers'[p].idx].run_id] = "live"
         /\ pickers'[p].pc = "idle" =>
              \A y \in Range(pickers[p].yielded) :
                control'[y] # Null =>
                  \E q \in PickerIds \ {p} :
                    /\ pickers'[q].pc = "held"
                    /\ pickers'[q].list[pickers'[q].idx].run_id = y]_vars
\* a generator resumed past its first run: that run is unlocked, the second held
C31_Witness ==
  \E p \in PickerIds :
    /\ pickers[p].pc = "held"
    /\ Len(pickers[p].yielded) = 2
    /\ control[pickers[p].yielded[1]] = Null
    /\ control[pickers[p].yielded[2]] # Null


Min2(a, b) == IF a <= b THEN a ELSE b
Max2(a, b) == IF a >= b THEN a ELSE b
\* the elements of seq from position offset on (counted from 0), at most limit
Page(seq, limit, offset) ==
  SubSeq(seq, offset + 1, offset + Min2(limit, Max2(0, Len(seq) - offset)))

\* C32: in every state and for every thread, status filter, limit and offset,
\* Runs.search returns the matching runs of the thread from position offset
\* on, at most limit of them: min(limit, max(0, matches - offset)) runs
C32_SearchPage ==
  \A tid \in ThreadIds, st \in {Null, "pending"}, limit \in 0..MaxRuns, offset \in 0..MaxRuns :
    LET matches == RunsSearchMatches(runs, tid, st)
        res == RunsSearch(runs, tid, st, limit, offset)
    IN /\ Len(res) = Min2(limit, Max2(0, Len(matches) - offset))
       /\ res = Page(matches, limit, offset)


\* C33: every Runs.cancel call that has been made returns, with success or
\* with 404, also when it deletes a pending run that was never started
C33_CancelReturns ==
  \A c \in CallIds : (calls[c].pc = "wait") ~> (calls[c].pc = "done")


\* the listed run ids that Runs.cancel finds
FoundIds(threadId, runIds) ==
  SelectSeqBy(runIds, {r \in Range(runIds) : CancelFinds(threadId, runIds, r)})

\* C34 as stated: a Runs.cancel that ends with 404 has changed no run and
\* fired no handle
C34_AsStated ==
  \A in \in CancelInputs :
    LET res == CancelResult(runs, control, in[1], in[2], in[3], now)
    IN res.outcome = "404" => (res.runs = runs /\ res.control = control)

\* C34 amended: a Runs.cancel that ends with 404 leaves the runs and handles
\* as the successful call on the listed runs it found leaves them; the runs it
\* did not find and their handles are unchanged
C34_PartialCancel ==
  \A in \in CancelInputs :
    LET res == CancelResult(runs, control, in[1], in[2], in[3], now)
        ok == CancelResult(runs, control, in[1], FoundIds(in[1], in[2]), in[3], now)
    IN res.outcome = "404" =>
         /\ ok.outcome = "ok"
         /\ res.runs = ok.runs
         /\ res.control = ok.control
         /\ \A r \in RunIds :
              ~CancelFinds(in[1], in[2], r) =>
                /\ res.control[r] = control[r]
                /\ RunsGet(res.runs, r, NoId) = RunsGet(runs, r, NoId)
\* a call listing a pending run and a missing one: 404, and the pending run is
\* interrupted
C34_Witness ==
  \E r \in RunIds, x \in RunIds :
    LET res == CancelResult(runs, control, NoId, IF r < x THEN <<r, x>> ELSE <<x, r>>,
                            "interrupt", now)
    IN /\ HasRun(r) /\ ~HasRun(x)
       /\ GetRun(r).status = "pending"
       /\ res.outcome = "404"
       /\ RunsGet(res.runs, r, NoId).status = "interrupted"


\* the calls of Runs.put on an existing thread with preventInsertInInflight
PreventPutInputs ==
  AssistantIds \X ThreadIds \X {Null, "c3"} \X {"create", "reject"}

\* C35 as stated: in every state, a Runs.put with preventInsertInInflight that
\* inserts no run because the thread has pending runs leaves the threads as
\* they are
C35_AsStated ==
  \A rid \in RunIds \ usedRunIds, in \in PreventPutInputs :
    LET res == RunsPutResult(rid, in[1], in[2], in[2], "pending", in[3], TRUE, in[4], 0)
    IN (in[1] \in DOMAIN assistants /\ in[2] \in DOMAIN threads
          /\ Inflight(runs, in[2]) # <<>>) =>
         (res.runs = runs /\ res.threads = threads)


\* C35 amended: such a call leaves the runs and every other thread as they
\* are; it leaves the thread itself unchanged when it is busy, and otherwise
\* marks it busy and merges the assistant's graph_id and assistant_id into its
\* metadata and the assistant's and the call's config into its config
C35_RejectedPutMarksBusy ==
  \A rid \in RunIds \ usedRunIds, in \in PreventPutInputs :
    LET res == RunsPutResult(rid, in[1], in[2], in[2], "pending", in[3], TRUE, in[4], 0)
        tid == in[2]
        seed == [graph_id |-> assistants[in[1]].graph_id, assistant_id |-> in[1]]
    IN (in[1] \in DOMAIN assistants /\ tid \in DOMAIN threads
          /\ Inflight(runs, tid) # <<>>) =>
         /\ res.runs = runs
         /\ DOMAIN res.threads = DOMAIN threads
         /\ \A t \in DOMAIN threads \ {tid} : res.threads[t] = threads[t]
         /\ threads[tid].status = "busy" => res.threads[tid] = threads[tid]
         /\ threads[tid].status # "busy" =>
              res.threads[tid] =
                [threads[tid] EXCEPT
                   !.status = "busy",
                   !.metadata = MergeThreadMeta(threads[tid].metadata, seed),
                   !.config = AssignConfig(<<assistants[in[1]].config, threads[tid].config,
                                             in[3]>>)]
\* a thread that is not busy although it has a pending run
C35_Witness ==
  \E tid \in DOMAIN threads :
    /\ threads[tid].status = "error"
    /\ Inflight(runs, tid) # <<>>
    /\ \E rid \in RunIds \ usedRunIds, aid \in DOMAIN assistants :
         LET res == RunsPutResult(rid, aid, tid, tid, "pending", Null, TRUE, "reject", 0)
         IN res.runs = runs /\ res.threads[tid].status = "busy"


\* C36: in every state a thread with status busy has a run that is pending or
\* running, or at least a run the executor has finished and not yet reported
\* with Threads.setStatus: a thread whose runs were all cancelled or deleted
\* is not busy
C36_BusyHasWork ==
  \A tid \in DOMAIN threads :
    threads[tid].status = "busy" =>
      \E i \in 1..Len(runs) :
        runs[i].thread_id = tid /\ runs[i].status # "interrupted"

\* C37: every message a completed Queue.get returned is a message that was
\* pushed to the queue, never the absent value, for any number of waiting gets
C37_GetReturnsPushed ==
  \A sub \in SubIds :
    \A i \in 1..Len(subs[sub].got) :
      subs[sub].got[i] # Undefined /\ subs[sub].got[i] \in Range(pushed)

\* C38: in every step in which a picker iteration yields a run (the first
\* next() or a resumption that reaches another yield), the run yielded is in
\* the store and has status pending
C38_YieldsPending ==
  [][\A p \in PickerIds :
       (pickers'[p].pc = "held" /\ pickers'[p] # pickers[p]) =>
         \E i \in 1..Len(runs') :
           /\ runs'[i].run_id = pickers'[p].list[pickers'[p].idx].run_id
           /\ runs'[i].status = "pending"]_vars

\* C39: at most one server process spawned by launchServer is alive, and a
\* process that is alive is the one the variable child refers to
C39_OneChild ==
  /\ Cardinality(alive) <= 1
  /\ alive \subseteq {child}

====
